---- MODULE Spec2Model ----
(***************************************************************************)
(* Model of contentcuration/db/models/manager.py: the nested-set (MPTT)    *)
(* tree manager CustomContentNodeTreeManager: lock_mptt, move_node and     *)
(* copy_node over a forest of persisted ContentNode rows.                  *)
(*                                                                         *)
(* The bodies of the django-mptt TreeManager methods that manager.py calls *)
(* (_move_node, insert_node, _create_space, ...) follow django-mptt's      *)
(* managers.py; each is mapped to the place where manager.py calls it.     *)
(***************************************************************************)
EXTENDS Integers, Sequences, FiniteSets, TLC

\* ------------------------------------------------------------------ bounds
\* Node ids the store can hold (initial forest plus the copies made).
MaxNodes == 12
\* Operations (move_node / copy_node calls) started in one behaviour.
MaxOps == 2
\* lock_mptt calls started in one behaviour of the lock specification.
MaxCalls == 2
\* Database faults injected in one behaviour (lock attempts, copy units).
MaxFaults == 3

\* --------------------------------------------------------------- constants
\* Python's None for a node id, a tree id or a parent reference.
None == 0
\* manager.py: BATCH_SIZE
BATCH_SIZE == 100

Procs == {1, 2}
NodeIds == 1..MaxNodes
Positions == {"first-child", "last-child", "left", "right"}
TOPIC == "topic"

\* ------------------------------------------------------------ the store
\* A persisted ContentNode row: the MPTT columns and the kind.
Row(t, l, r, lv, p, k) ==
    [tree_id |-> t, lft |-> l, rght |-> r, level |-> lv, parent |-> p, kind |-> k]

\* An in-memory model instance: the values it had when it was read.
Instance(d, n) ==
    [id |-> n, tree_id |-> d[n].tree_id, lft |-> d[n].lft, rght |-> d[n].rght,
     level |-> d[n].level, parent |-> d[n].parent, kind |-> d[n].kind]

NoneInstance ==
    [id |-> None, tree_id |-> None, lft |-> 0, rght |-> 0, level |-> 0,
     parent |-> None, kind |-> "none"]

TreeRows(d, t) == {n \in DOMAIN d : d[n].tree_id = t}

Max(a, b) == IF a >= b THEN a ELSE b
Min(a, b) == IF a <= b THEN a ELSE b

\* ------------------------------------------------- django-mptt primitives
\* TreeManager._manage_space: shift lft/rght greater than target by size.
manage_space(d, size, target, tree_id) ==
    [n \in DOMAIN d |->
        IF d[n].tree_id = tree_id
        THEN [d[n] EXCEPT !.lft = IF @ > target THEN @ + size ELSE @,
                          !.rght = IF @ > target THEN @ + size ELSE @]
        ELSE d[n]]

create_space(d, size, target, tree_id) == manage_space(d, size, target, tree_id)

\* _create_tree_space: increment all tree ids greater than target_tree_id.
\* (The guard against -1 raises; tree ids here are never negative.)
create_tree_space(d, target_tree_id) ==
    [n \in DOMAIN d |->
        IF d[n].tree_id > target_tree_id
        THEN [d[n] EXCEPT !.tree_id = @ + 1]
        ELSE d[n]]

\* TreeManager._inter_tree_move_and_close_gap, for the in-memory node o.
inter_tree_move_and_close_gap(d, o, level_change, left_right_change, new_tree_id, parent_pk) ==
    LET left == o.lft
        right == o.rght
        gap_size == right - left + 1
    IN [n \in DOMAIN d |->
        IF d[n].tree_id = o.tree_id
        THEN LET inl == d[n].lft >= left /\ d[n].lft <= right
                 inr == d[n].rght >= left /\ d[n].rght <= right
             IN [d[n] EXCEPT
                   !.level = IF inl THEN @ - level_change ELSE @,
                   !.tree_id = IF inl THEN new_tree_id ELSE @,
                   !.lft = IF inl THEN @ - left_right_change
                           ELSE IF @ > right THEN @ - gap_size ELSE @,
                   !.rght = IF inr THEN @ - left_right_change
                            ELSE IF @ > right THEN @ - gap_size ELSE @,
                   !.parent = IF n = o.id THEN parent_pk ELSE @]
        ELSE d[n]]

\* TreeManager._calculate_inter_tree_move_values.
calculate_inter_tree_move_values(o, target, position) ==
    LET child == position \in {"first-child", "last-child"}
        space_target ==
            CASE position = "last-child" -> target.rght - 1
              [] position = "first-child" -> target.lft
              [] position = "left" -> target.lft - 1
              [] OTHER -> target.rght
    IN [space_target |-> space_target,
        level_change |-> IF child THEN o.level - target.level - 1
                         ELSE o.level - target.level,
        left_right_change |-> o.lft - space_target - 1,
        parent |-> IF child THEN target.id ELSE target.parent]

\* The outcome of a structural operation: the store, the instance as the
\* operation leaves it in memory, the tree-id counter, whether it raised, and
\* the nodes whose prerequisite relationship records it deleted.
Outcome(d, o, tid, raised) ==
    [db |-> d, node |-> o, tid |-> tid, raised |-> raised, unlinked |-> {}]

\* TreeManager._make_child_root_node.
make_child_root_node(d, o, new_tree_id, tid) ==
    LET lrc == o.lft - 1
        d2 == inter_tree_move_and_close_gap(d, o, o.level, lrc, new_tree_id, None)
    IN Outcome(d2,
               [o EXCEPT !.lft = o.lft - lrc, !.rght = o.rght - lrc, !.level = 0,
                         !.tree_id = new_tree_id, !.parent = None],
               tid, FALSE)

\* Root nodes of the store, for get_previous_sibling / get_next_sibling of a root.
RootTrees(d) == {d[n].tree_id : n \in {m \in DOMAIN d : d[m].parent = None}}

SetMax(S) == CHOOSE x \in S : \A y \in S : y <= x
SetMin(S) == CHOOSE x \in S : \A y \in S : x <= y

\* The shift of tree ids made by _make_sibling_of_root_node for a root node.
root_sibling_shift(d, tree_id, new_tree_id, lower, upper, shift) ==
    [n \in DOMAIN d |->
        IF d[n].tree_id >= lower /\ d[n].tree_id <= upper
        THEN [d[n] EXCEPT !.tree_id = IF @ = tree_id THEN new_tree_id ELSE @ + shift]
        ELSE d[n]]

\* The root node a root's get_previous_sibling / get_next_sibling returns.
RootOfTree(d, t) == CHOOSE n \in DOMAIN d : d[n].parent = None /\ d[n].tree_id = t

\* TreeManager._make_sibling_of_root_node.
make_sibling_of_root_node(d, o, target, position, tid) ==
    IF o.id = target.id THEN Outcome(d, o, tid, TRUE)
    ELSE IF o.parent # None
    THEN LET space_target == IF position = "left" THEN target.tree_id - 1
                             ELSE target.tree_id
             new_tree_id == IF position = "left" THEN target.tree_id
                            ELSE target.tree_id + 1
             d2 == create_tree_space(d, space_target)
             o2 == IF o.tree_id > space_target
                   THEN [o EXCEPT !.tree_id = @ + 1] ELSE o
         IN make_child_root_node(d2, o2, new_tree_id, tid)
    ELSE LET before == {t \in RootTrees(d) : t < target.tree_id}
             after == {t \in RootTrees(d) : t > target.tree_id}
             up == target.tree_id > o.tree_id
             uses_sibling == (position = "left") = up
             siblings == IF position = "left" THEN before ELSE after
             sibling == IF siblings = {} THEN None
                        ELSE RootOfTree(d, IF position = "left" THEN SetMax(before)
                                           ELSE SetMin(after))
             new_tree_id == IF uses_sibling THEN d[sibling].tree_id ELSE target.tree_id
             lower == IF up THEN o.tree_id ELSE new_tree_id
             upper == IF up THEN new_tree_id ELSE o.tree_id
             shift == IF up THEN 0 - 1 ELSE 1
         IN IF uses_sibling /\ sibling = None THEN Outcome(d, o, tid, TRUE)
            ELSE IF uses_sibling /\ sibling = o.id THEN Outcome(d, o, tid, FALSE)
            ELSE Outcome(root_sibling_shift(d, o.tree_id, new_tree_id, lower, upper, shift),
                         [o EXCEPT !.tree_id = new_tree_id], tid, FALSE)

\* TreeManager._move_child_within_tree.
move_child_within_tree(d, o, target, position, tid) ==
    LET left == o.lft
        right == o.rght
        width == right - left + 1
        child == position \in {"first-child", "last-child"}
        new_left ==
            CASE position = "last-child" ->
                     (IF target.rght > right THEN target.rght - width ELSE target.rght)
              [] position = "first-child" ->
                     (IF target.lft > left THEN target.lft - width + 1 ELSE target.lft + 1)
              [] position = "left" ->
                     (IF target.lft > left THEN target.lft - width ELSE target.lft)
              [] OTHER ->
                     (IF target.rght > right THEN target.rght - width + 1 ELSE target.rght + 1)
        new_right == new_left + width - 1
        level_change == IF child THEN o.level - target.level - 1
                        ELSE o.level - target.level
        parent == IF child THEN target.id ELSE target.parent
        left_boundary == Min(left, new_left)
        right_boundary == Max(right, new_right)
        left_right_change == new_left - left
        gap_size == IF left_right_change > 0 THEN 0 - width ELSE width
        d2 == [n \in DOMAIN d |->
                IF d[n].tree_id = o.tree_id
                THEN LET inl == d[n].lft >= left /\ d[n].lft <= right
                         inr == d[n].rght >= left /\ d[n].rght <= right
                     IN [d[n] EXCEPT
                           !.level = IF inl THEN @ - level_change ELSE @,
                           !.lft = IF inl THEN @ + left_right_change
                                   ELSE IF @ >= left_boundary /\ @ <= right_boundary
                                        THEN @ + gap_size ELSE @,
                           !.rght = IF inr THEN @ + left_right_change
                                    ELSE IF @ >= left_boundary /\ @ <= right_boundary
                                         THEN @ + gap_size ELSE @]
                ELSE d[n]]
    IN IF o.id = target.id \/ (left < target.lft /\ target.lft < right)
       THEN Outcome(d, o, tid, TRUE)
       ELSE Outcome(d2,
                    [o EXCEPT !.lft = new_left, !.rght = new_right,
                              !.level = o.level - level_change, !.parent = parent],
                    tid, FALSE)

\* _move_child_to_new_tree: TreeManager's, then the override in manager.py
\* deletes the prerequisite relationship records of the node.
move_child_to_new_tree(d, o, target, position, tid) ==
    LET v == calculate_inter_tree_move_values(o, target, position)
        tree_width == o.rght - o.lft + 1
        d2 == create_space(d, tree_width, v.space_target, target.tree_id)
        d3 == inter_tree_move_and_close_gap(d2, o, v.level_change, v.left_right_change,
                                            target.tree_id, v.parent)
    IN [Outcome(d3,
                [o EXCEPT !.lft = o.lft - v.left_right_change,
                          !.rght = o.rght - v.left_right_change,
                          !.level = o.level - v.level_change,
                          !.tree_id = target.tree_id, !.parent = v.parent],
                tid, FALSE) EXCEPT !.unlinked = {o.id}]

\* TreeManager._move_child_node.
move_child_node(d, o, target, position, tid) ==
    IF o.tree_id = target.tree_id
    THEN move_child_within_tree(d, o, target, position, tid)
    ELSE move_child_to_new_tree(d, o, target, position, tid)

\* TreeManager._move_root_node.
move_root_node(d, o, target, position, tid) ==
    LET v == calculate_inter_tree_move_values(o, target, position)
        width == o.rght - o.lft + 1
        d2 == create_space(d, width, v.space_target, target.tree_id)
        d3 == [n \in DOMAIN d2 |->
                IF d2[n].tree_id = o.tree_id /\ d2[n].lft >= o.lft /\ d2[n].lft <= o.rght
                THEN [d2[n] EXCEPT !.level = @ - v.level_change,
                                   !.lft = @ - v.left_right_change,
                                   !.rght = @ - v.left_right_change,
                                   !.tree_id = target.tree_id]
                ELSE d2[n]]
    IN IF o.id = target.id \/ o.tree_id = target.tree_id
       THEN Outcome(d, o, tid, TRUE)
       ELSE Outcome(d3,
                    [o EXCEPT !.lft = o.lft - v.left_right_change,
                              !.rght = o.rght - v.left_right_change,
                              !.level = o.level - v.level_change,
                              !.tree_id = target.tree_id, !.parent = v.parent],
                    tid, FALSE)

\* TreeManager._move_node (MPTT tracking off): the dispatch on node and target.
mptt_move_node(d, o, target, position, tid) ==
    IF target.id = None
    THEN (IF o.parent # None THEN make_child_root_node(d, o, tid + 1, tid + 1)
          ELSE Outcome(d, o, tid, FALSE))
    ELSE IF target.parent = None /\ position \in {"left", "right"}
    THEN make_sibling_of_root_node(d, o, target, position, tid)
    ELSE IF o.parent = None
    THEN move_root_node(d, o, target, position, tid)
    ELSE move_child_node(d, o, target, position, tid)

\* Model.save of an existing instance: its in-memory columns are written to its row.
save(d, o) ==
    [d EXCEPT ![o.id] = [@ EXCEPT !.tree_id = o.tree_id, !.lft = o.lft, !.rght = o.rght,
                                  !.level = o.level, !.parent = o.parent]]

\* _mptt_refresh: id, lft, rght, level and tree_id are read again; parent is not.
mptt_refresh(d, o) ==
    IF o.id # None
    THEN [o EXCEPT !.lft = d[o.id].lft, !.rght = d[o.id].rght,
                   !.level = d[o.id].level, !.tree_id = d[o.id].tree_id]
    ELSE o

\* TreeManager.insert_node of a new instance o (save=False), then its insert.
insert_node(d, o, target, position, tid) ==
    IF target.id = None
    THEN LET o2 == [o EXCEPT !.lft = 1, !.rght = 2, !.level = 0,
                             !.tree_id = tid + 1, !.parent = None]
         IN Outcome(d, o2, tid + 1, FALSE)
    ELSE IF target.parent = None /\ position \in {"left", "right"}
    THEN LET tree_id == IF position = "left" THEN target.tree_id ELSE target.tree_id + 1
             space_target == IF position = "left" THEN target.tree_id - 1
                             ELSE target.tree_id
             o2 == [o EXCEPT !.lft = 1, !.rght = 2, !.level = 0,
                             !.tree_id = tree_id, !.parent = None]
         IN Outcome(create_tree_space(d, space_target), o2, tid, FALSE)
    ELSE LET v == calculate_inter_tree_move_values(
                      [o EXCEPT !.lft = 0, !.level = 0], target, position)
             o2 == [o EXCEPT !.lft = 0 - v.left_right_change,
                             !.rght = 0 - v.left_right_change + 1,
                             !.level = 0 - v.level_change,
                             !.tree_id = target.tree_id, !.parent = v.parent]
         IN Outcome(create_space(d, 2, v.space_target, target.tree_id), o2, tid, FALSE)

\* The row an instance is inserted as.
RowOf(o) == Row(o.tree_id, o.lft, o.rght, o.level, o.parent, o.kind)

force_insert(d, o) == [n \in DOMAIN d \cup {o.id} |-> IF n = o.id THEN RowOf(o) ELSE d[n]]

\* ------------------------------------------------------ the copy's helpers
\* A set of node ids as the sequence sorted by lft (sorted(..., key=lambda x: x.lft)).
SortByLft(rows, S) ==
    CHOOSE s \in [1..Cardinality(S) -> S] :
        /\ \A i, j \in 1..Cardinality(S) : i # j => s[i] # s[j]
        /\ \A i, j \in 1..Cardinality(S) : i < j => rows[s[i]].lft <= rows[s[j]].lft

\* node.get_descendants(include_self=True), by the instance's own lft, rght
\* and tree_id, as the rows read when the queryset is evaluated.
get_descendants(d, o) ==
    IF o.rght - o.lft = 1
    THEN {n \in DOMAIN d : n = o.id}
    ELSE {n \in DOMAIN d : d[n].tree_id = o.tree_id /\ d[n].lft >= o.lft /\ d[n].lft <= o.rght}

\* self.filter(node_id__in=excluded).get_descendants(include_self=True): the
\* excluded rows and the rows under them, by the persisted coordinates.
excluded_subtrees(d, excluded) ==
    {n \in DOMAIN d : \E e \in excluded \cap DOMAIN d :
        /\ d[n].tree_id = d[e].tree_id
        /\ d[n].lft >= d[e].lft /\ d[n].rght <= d[e].rght}

\* _all_nodes_to_copy: the descendants of the node less the excluded subtrees.
all_nodes_to_copy(d, o, excluded) ==
    IF excluded = {} THEN get_descendants(d, o)
    ELSE get_descendants(d, o) \ excluded_subtrees(d, excluded)

\* nodes_by_parent[source.id], sorted by lft, when source is a topic that has any.
clone_children(d, S, n) ==
    IF d[n].kind = TOPIC
    THEN SortByLft(d, {c \in S : d[c].parent = n})
    ELSE << >>

RECURSIVE preorder(_, _, _)
RECURSIVE preorder_all(_, _, _)
\* The source nodes _recurse_to_create_tree clones, in the order it reaches them.
preorder(d, S, n) == <<n>> \o preorder_all(d, S, clone_children(d, S, n))

preorder_all(d, S, kids) ==
    IF kids = << >> THEN << >>
    ELSE preorder(d, S, Head(kids)) \o preorder_all(d, S, Tail(kids))

IndexOf(seq, x) == CHOOSE i \in 1..Len(seq) : seq[i] = x

RECURSIVE treeify(_, _, _, _, _)
RECURSIVE treeify_children(_, _, _, _, _)
\* build_tree_nodes' treeify: lft on entry, rght on exit, level = depth.
treeify(d, S, n, cursor, level) ==
    LET kids == treeify_children(d, S, clone_children(d, S, n), cursor, level + 1)
    IN [rows |-> kids.rows \cup {[src |-> n, lft |-> cursor, rght |-> kids.cursor + 1,
                                  level |-> level]},
        cursor |-> kids.cursor + 1]

treeify_children(d, S, kids, cursor, level) ==
    IF kids = << >> THEN [rows |-> {}, cursor |-> cursor]
    ELSE LET first == treeify(d, S, Head(kids), cursor + 1, level)
             rest == treeify_children(d, S, Tail(kids), first.cursor, level)
         IN [rows |-> first.rows \cup rest.rows, cursor |-> rest.cursor]

\* build_tree_nodes: where the batch starts.
build_cursor(target, position) ==
    IF target.id = None THEN 1
    ELSE CASE position = "left" -> target.lft
           [] position = "right" -> target.rght + 1
           [] position = "first-child" -> target.lft + 1
           [] OTHER -> target.rght

build_level(target, position) ==
    IF target.id = None THEN 0
    ELSE IF position \in {"left", "right"} THEN target.level ELSE target.level + 1

\* _deep_copy: the parent_id given to the root of the copy.
deep_copy_parent(target, position) == IF target.id # None THEN target.id ELSE None

\* ------------------------------------------------- payload and dependents
\* The fields of a node beside its coordinates that the copy reads or writes;
\* a node is made with no provenance of an original (a legacy node).
Payload(cloned_source, freeze_authoring_data, changed) ==
    [cloned_source |-> cloned_source, freeze_authoring_data |-> freeze_authoring_data,
     changed |-> changed, original_channel_id |-> None, original_source_node_id |-> None]

\* The overrides a caller passes: the fields it sets and their values.
NoMods == [fields |-> {}, freeze_authoring_data |-> FALSE]
Unfreeze == [fields |-> {"freeze_authoring_data"}, freeze_authoring_data |-> FALSE]
Unsourced ==
    [fields |-> {"original_channel_id", "original_source_node_id"},
     freeze_authoring_data |-> FALSE,
     original_channel_id |-> None, original_source_node_id |-> None]
Resourced ==
    [fields |-> {"original_channel_id", "original_source_node_id"},
     freeze_authoring_data |-> FALSE,
     original_channel_id |-> 2, original_source_node_id |-> 3]

\* source.get_original_node() as _clone_node reads it: its node_id and the id
\* of its channel.  A source with a provenance has the node and the channel
\* it names; a legacy source is its own original, in a tree of no channel.
get_original_node(src, pl) ==
    [node_id |-> IF pl.original_source_node_id # None THEN pl.original_source_node_id
                 ELSE src,
     channel |-> pl.original_channel_id]

\* A clone whose provenance is the source's whatever the overrides say.
clone_node_provenance_kept(src, pl, can_edit_source_channel, mods) ==
    LET freeze == (~can_edit_source_channel) \/ pl.freeze_authoring_data
        original == get_original_node(src, pl)
    IN [Payload(src,
                IF "freeze_authoring_data" \in mods.fields
                THEN mods.freeze_authoring_data ELSE freeze,
                TRUE)
        EXCEPT !.original_channel_id = original.channel,
               !.original_source_node_id = original.node_id]

\* A clone that is frozen by the copier's rights alone.
clone_node_own_rights(src, pl, can_edit_source_channel, mods) ==
    Payload(src,
            IF "freeze_authoring_data" \in mods.fields
            THEN mods.freeze_authoring_data ELSE ~can_edit_source_channel,
            TRUE)

\* _clone_node: the payload of the copy of source src whose payload is pl;
\* copy.update(mods) is applied to the fields set from the source, and then
\* a provenance field that is None is filled in from the original node.
clone_node(src, pl, can_edit_source_channel, mods) ==
    LET freeze == (~can_edit_source_channel) \/ pl.freeze_authoring_data
        channel == IF "original_channel_id" \in mods.fields
                   THEN mods.original_channel_id ELSE pl.original_channel_id
        source_node == IF "original_source_node_id" \in mods.fields
                       THEN mods.original_source_node_id
                       ELSE pl.original_source_node_id
        original == get_original_node(src, pl)
    IN [Payload(src,
                IF "freeze_authoring_data" \in mods.fields
                THEN mods.freeze_authoring_data ELSE freeze,
                TRUE)
        EXCEPT !.original_channel_id = IF channel = None THEN original.channel
                                       ELSE channel,
               !.original_source_node_id = IF source_node = None THEN original.node_id
                                           ELSE source_node]

\* The dependent records: files, assessment items, tags and the node-tag
\* association rows, with the last id handed out to any of them, and the
\* PrerequisiteContentRelationship rows.
Related(files, items, tags, node_tags, last) ==
    [files |-> files, items |-> items, tags |-> tags, node_tags |-> node_tags,
     last |-> last, prerequisites |-> {}]

\* PrerequisiteContentRelationship.objects.filter(Q(prerequisite_id=id) |
\* Q(target_node_id=id)).delete() for every id of ids.
delete_prerequisites(rel, ids) ==
    [rel EXCEPT !.prerequisites =
        {r \in @ : r.prerequisite \notin ids /\ r.target_node \notin ids}]

NoRelated == Related({}, {}, {}, {}, 0)

\* The records of a set in the order a query returns them (by id).
ById(S) ==
    CHOOSE s \in [1..Cardinality(S) -> S] :
        \A i, j \in 1..Cardinality(S) : i < j => s[i].id < s[j].id

RankIn(S, x) == Cardinality({y \in S : y.id <= x.id})

\* The outcome of a step of the dependent-record copy.
Copied(rel, raised) == [rel |-> rel, raised |-> raised]

\* _copy_files over the files whose node is selected: each is inserted again
\* under a new id with the node id looked up in the map.
copy_files(rel, map, sel) ==
    LET node_files == {f \in rel.files : f.contentnode \in sel}
    IN IF \E f \in node_files : f.contentnode \notin DOMAIN map
       THEN Copied(rel, "KeyError")
       ELSE Copied([rel EXCEPT
                      !.files = @ \cup {[f EXCEPT !.id = rel.last + RankIn(node_files, f),
                                                  !.contentnode = map[f.contentnode]]
                                        : f \in node_files},
                      !.last = @ + Cardinality(node_files)],
                   "none")

\* _copy_assessment_items: the items of the selected nodes are inserted again,
\* then their files, correlated through the key (new node id, assessment_id).
copy_assessment_items(rel, map, sel) ==
    LET items == {i \in rel.items : i.contentnode \in sel}
        item_files == {f \in rel.files : f.assessment_item \in {i.id : i \in items}}
        key(i) == <<map[i.contentnode], i.assessment_id>>
        new_id(i) == rel.last + RankIn(items, i)
        \* assessmentitem_old_id_lookup[key]: the last item registered under it
        old_id(k) == (CHOOSE i \in items : key(i) = k /\ \A j \in items :
                                             key(j) = k => j.id <= i.id).id
        \* assessmentitem_new_id_lookup[old id]: the last new item with its key
        lookup == [o \in {old_id(key(i)) : i \in items} |->
                     new_id(CHOOSE i \in items : old_id(key(i)) = o /\ \A j \in items :
                                                   old_id(key(j)) = o => j.id <= i.id)]
        with_items == [rel EXCEPT
                         !.items = @ \cup {[i EXCEPT !.id = new_id(i),
                                                     !.contentnode = map[i.contentnode]]
                                           : i \in items},
                         !.last = @ + Cardinality(items)]
    IN IF \E i \in items : i.contentnode \notin DOMAIN map
       THEN Copied(rel, "KeyError")
       ELSE IF \E f \in item_files : f.assessment_item \notin DOMAIN lookup
       THEN Copied(with_items, "KeyError")
       ELSE Copied([with_items EXCEPT
                      !.files = @ \cup {[f EXCEPT
                                           !.id = with_items.last + RankIn(item_files, f),
                                           !.assessment_item = lookup[f.assessment_item]]
                                        : f \in item_files},
                      !.last = @ + Cardinality(item_files)],
                   "none")

\* _copy_tags: one row of tags_to_copy per association of a selected node
\* with a channel tag; a row whose name has no channel-independent tag makes
\* a new one; the associations are inserted again with the mapped ids, and
\* the insert of a row without a node is refused by the database.
copy_tags(rel, map, sel) ==
    LET mappings == {m \in rel.node_tags : m.contentnode \in sel}
        tag(m) == CHOOSE t \in rel.tags : t.id = m.contenttag
        rows == {m \in mappings : tag(m).channel # None}
        existing == {t \in rel.tags : t.channel = None
                                      /\ t.tag_name \in {tag(m).tag_name : m \in rows}}
        existing_id(name) == (CHOOSE t \in existing : t.tag_name = name /\ \A u \in existing :
                                                        u.tag_name = name => u.id <= t.id).id
        fresh == {m \in rows : tag(m).tag_name \notin {t.tag_name : t \in existing}}
        new_id(m) == rel.last + RankIn(fresh, m)
        tag_id_map == [t \in {m.contenttag : m \in rows} |->
                         IF \E m \in fresh : m.contenttag = t
                         THEN new_id(CHOOSE m \in fresh : m.contenttag = t /\ \A n \in fresh :
                                                            n.contenttag = t => n.id <= m.id)
                         ELSE existing_id((CHOOSE u \in rel.tags : u.id = t).tag_name)]
        with_tags == [rel EXCEPT
                        !.tags = @ \cup {[id |-> new_id(m), tag_name |-> tag(m).tag_name,
                                          channel |-> None] : m \in fresh},
                        !.last = @ + Cardinality(fresh)]
    IN IF \E m \in mappings : m.contentnode \notin DOMAIN map
       THEN Copied(with_tags, "IntegrityError")
       ELSE Copied([with_tags EXCEPT
                      !.node_tags = @ \cup
                          {[id |-> with_tags.last + RankIn(mappings, m),
                            contenttag |-> IF m.contenttag \in DOMAIN tag_id_map
                                           THEN tag_id_map[m.contenttag] ELSE m.contenttag,
                            contentnode |-> map[m.contentnode]] : m \in mappings},
                      !.last = @ + Cardinality(mappings)],
                   "none")

\* A copier that passes over the records whose node the map does not have.
copy_associated_objects_skipping(rel, map, sel) ==
    LET a == copy_files(rel, map, sel \cap DOMAIN map)
        b == copy_assessment_items(a.rel, map, sel \cap DOMAIN map)
    IN copy_tags(b.rel, map, sel \cap DOMAIN map)

\* _copy_associated_objects: files, then assessment items, then tags; the
\* first error ends it, with what was written before left in place.
copy_associated_objects(rel, map, sel) ==
    LET a == copy_files(rel, map, sel)
        b == copy_assessment_items(a.rel, map, sel)
        c == copy_tags(b.rel, map, sel)
    IN IF a.raised # "none" THEN a
       ELSE IF b.raised # "none" THEN b
       ELSE c

\* ------------------------------------------------------------------ state
VARIABLES
    db,          \* the persisted ContentNode rows: node id -> Row
    tree_id_seq, \* MPTTTreeIDManager: the last id its table issued
    issued,      \* the _get_next_tree_id calls of copies, in order: id returned, root made
    next_pk,     \* the node ids handed out so far (uuid4 in the code)
    pc,          \* where each process is
    call,        \* the operation a process runs: op, position, batch_size
    node,        \* the node instance a process holds in memory
    target,      \* the target instance a process holds in memory
    args,        \* the tree ids lock_mptt was called with, in the caller's order
    mode,        \* the process's _mptt_is_tracking / _mptt_updates_enabled flags
    tree_ids,    \* lock_mptt's normalised tree ids
    cursor,      \* _attempt_lock: the index of the next tree id to lock
    held,        \* the tree ids whose rows the process's transaction has locked
    txn,         \* whether lock_mptt's transaction.atomic() block is open
    attempts,    \* _attempt_lock calls made by the current lock_mptt call
    body_runs,   \* times the body of the current lock_mptt call has run
    error,       \* the exception the current call ended with, or "none"
    errors,      \* the failures of the current call's lock attempts, in order
    frames,      \* _copy's recursion: the children still to copy, and their target
    clone,       \* what a copy unit cloned before it took the lock
    moved,       \* per process, the moves whose structural update completed
    signals,     \* per process, the node_moved signals sent
    ops,         \* move_node / copy_node calls started
    calls,       \* lock_mptt calls started by the opaque callers
    faults,      \* database faults injected
    payload,     \* node id -> Payload: cloned_source, freeze_authoring_data, changed
    related,     \* the dependent records: files, assessment items, tags, node tags
    totals,      \* per process, the totals the current copy_node call published
    reports,     \* per process, the counts the current copy_node call reported
    created,     \* per process, the nodes the current copy_node call inserted
    observed     \* the request of the last copy_node run and the store it started from

storeVars == <<db, tree_id_seq, issued, next_pk>>
lockVars == <<args, mode, tree_ids, cursor, held, txn, attempts, body_runs, errors>>
opVars == <<call, node, target, frames, clone, moved, signals>>
countVars == <<ops, calls, faults>>
copyVars == <<payload, related, totals, reports, created, observed>>
vars == <<db, tree_id_seq, issued, next_pk, pc, call, node, target, args, mode,
          tree_ids, cursor, held, txn, attempts, body_runs, error, errors,
          frames, clone, moved, signals, ops, calls, faults,
          payload, related, totals, reports, created, observed>>

\* The MPTT model flags a process can run under.
NormalMode == [is_tracking |-> FALSE, updates_enabled |-> TRUE]
DisabledMode == [is_tracking |-> FALSE, updates_enabled |-> FALSE]
DelayedMode == [is_tracking |-> TRUE, updates_enabled |-> FALSE]
Modes == {NormalMode, DisabledMode, DelayedMode}

\* The forest the tree operations start from: tree 1 is 1(2(3)), and tree 2 is
\* 4(5), the copy of node 2 that copy_node made with no target.
InitialForest ==
    (1 :> Row(1, 1, 6, 0, None, TOPIC)) @@ (2 :> Row(1, 2, 5, 1, 1, TOPIC))
    @@ (3 :> Row(1, 3, 4, 2, 2, "video")) @@ (4 :> Row(2, 1, 4, 0, None, TOPIC))
    @@ (5 :> Row(2, 2, 3, 1, 4, "video"))

\* The forest of the lock specification: three one-node trees; tree 4 has no row.
LockForest ==
    (1 :> Row(1, 1, 2, 0, None, TOPIC)) @@ (2 :> Row(2, 1, 2, 0, None, TOPIC))
    @@ (3 :> Row(3, 1, 2, 0, None, TOPIC))

NoCall ==
    [op |-> "none", position |-> "last-child", batch_size |-> BATCH_SIZE,
     excluded |-> {}, can_edit_source_channel |-> FALSE, mods |-> NoMods]
NoClone == [kind |-> "none"]
NoRun == [open |-> FALSE]

InitProcs ==
    /\ pc = [p \in Procs |-> "idle"]
    /\ call = [p \in Procs |-> NoCall]
    /\ node = [p \in Procs |-> NoneInstance]
    /\ target = [p \in Procs |-> NoneInstance]
    /\ args = [p \in Procs |-> << >>]
    /\ mode = [p \in Procs |-> NormalMode]
    /\ tree_ids = [p \in Procs |-> << >>]
    /\ cursor = [p \in Procs |-> 1]
    /\ held = [p \in Procs |-> {}]
    /\ txn = [p \in Procs |-> FALSE]
    /\ attempts = [p \in Procs |-> 0]
    /\ body_runs = [p \in Procs |-> 0]
    /\ error = [p \in Procs |-> "none"]
    /\ errors = [p \in Procs |-> << >>]
    /\ frames = [p \in Procs |-> << >>]
    /\ clone = [p \in Procs |-> NoClone]
    /\ moved = [p \in Procs |-> << >>]
    /\ signals = [p \in Procs |-> << >>]
    /\ ops = 0
    /\ calls = 0
    /\ faults = 0
    /\ totals = [p \in Procs |-> << >>]
    /\ reports = [p \in Procs |-> << >>]
    /\ created = [p \in Procs |-> {}]
    /\ observed = NoRun

\* The prerequisite relationship records at the start: 2 is a prerequisite
\* of 3 and 4 of 5, each inside one tree.
InitialPrerequisites ==
    {[prerequisite |-> 2, target_node |-> 3], [prerequisite |-> 4, target_node |-> 5]}

Init ==
    /\ db = InitialForest
    /\ tree_id_seq = 2
    /\ issued = <<[id |-> 2, root |-> 4]>>
    /\ next_pk = 5
    /\ payload = [n \in 1..5 |-> IF n \in {4, 5} THEN Payload(n - 2, TRUE, TRUE)
                                ELSE Payload(None, FALSE, FALSE)]
    /\ related = [NoRelated EXCEPT !.prerequisites = InitialPrerequisites]
    /\ InitProcs

InitLock ==
    /\ db = LockForest
    /\ tree_id_seq = 3
    /\ issued = << >>
    /\ next_pk = 3
    /\ payload = [n \in 1..3 |-> Payload(None, FALSE, FALSE)]
    /\ related = NoRelated
    /\ InitProcs

\* ---------------------------------------------------------------- lock_mptt
Range(s) == {s[i] : i \in 1..Len(s)}

SortSet(S) ==
    CHOOSE s \in [1..Cardinality(S) -> S] :
        \A i, j \in 1..Cardinality(S) : i < j => s[i] < s[j]

\* A lock_mptt that leaves out the sort: the ids in the caller's order.
normalise_unsorted(a) ==
    LET keep == {i \in 1..Len(a) : a[i] # None /\ \A j \in 1..(i - 1) : a[j] # a[i]}
    IN [k \in 1..Cardinality(keep) |->
            a[CHOOSE i \in keep : Cardinality({j \in keep : j < i}) = k - 1]]

\* sorted((t for t in set(tree_ids) if t is not None))
normalise(a) == SortSet({t \in Range(a) : t # None})

\* A lock_mptt that locks whatever the MPTT flags say.
locking_active_ignoring_flags(m, ids) == ids # << >>

\* lock_mptt's test: lock only outside delayed tracking, with updates enabled,
\* and with at least one tree id.
locking_active(m, ids) == ~m.is_tracking /\ m.updates_enabled /\ ids # << >>

\* A select_for_update that never waits for another transaction.
lock_free_never_blocks(p, t) == TRUE

\* The select_for_update of one tree blocks while another transaction holds
\* a lock on rows of that tree.
lock_free(p, t) == \A q \in Procs \ {p} : t \notin held[q]

\* The tree ids a select_for_update on tree t locks: t when it has rows.
locked_by_select(d, t) == IF TreeRows(d, t) # {} THEN {t} ELSE {}

\* lock_mptt is entered: the ids are normalised and either the first
\* _attempt_lock starts, or the body runs without any lock.
lock_mptt_enter(p) ==
    /\ pc[p] = "lock_mptt"
    /\ LET ids == normalise(args[p])
       IN /\ tree_ids' = [tree_ids EXCEPT ![p] = ids]
          /\ IF locking_active(mode[p], ids)
             THEN /\ pc' = [pc EXCEPT ![p] = "attempt_lock"]
                  /\ attempts' = [attempts EXCEPT ![p] = 1]
                  /\ txn' = [txn EXCEPT ![p] = TRUE]
             ELSE /\ pc' = [pc EXCEPT ![p] = "body"]
                  /\ UNCHANGED <<attempts, txn>>
    /\ cursor' = [cursor EXCEPT ![p] = 1]
    /\ UNCHANGED <<args, mode, held, body_runs, error, errors>>
    /\ UNCHANGED <<storeVars, opVars, countVars>>
    /\ UNCHANGED copyVars

\* _attempt_lock: one select_for_update, on the next tree id; after the last
\* one the generator yields and the body starts, unless the body has run: a
\* generator that yields again after its body raised is not resumed.
attempt_lock_step(p) ==
    /\ pc[p] = "attempt_lock"
    /\ LET t == tree_ids[p][cursor[p]]
       IN /\ lock_free(p, t)
          /\ held' = [held EXCEPT ![p] = @ \cup locked_by_select(db, t)]
    /\ IF cursor[p] = Len(tree_ids[p])
       THEN pc' = [pc EXCEPT ![p] = IF body_runs[p] = 0 THEN "body" ELSE "yielded"]
       ELSE pc' = pc
    /\ cursor' = [cursor EXCEPT ![p] = @ + 1]
    /\ UNCHANGED <<args, mode, tree_ids, txn, attempts, body_runs, error, errors>>
    /\ UNCHANGED <<storeVars, opVars, countVars>>
    /\ UNCHANGED copyVars

\* An except clause that retries after every deadlock.
retries_every_deadlock(e, n) == e = "deadlock"

\* An except clause that retries after any OperationalError.
retries_any_operational(e, n) == e \in {"deadlock", "operational"} /\ n = 1

\* lock_mptt's except clause: is a second _attempt_lock made after failure e?
retries(e, n) == e = "deadlock" /\ n = 1

\* A select_for_update of _attempt_lock raises: the transaction rolls back,
\* and lock_mptt either retries once (deadlock detected) or lets it propagate.
\* e is "deadlock" (OperationalError, deadlock detected), "operational"
\* (another OperationalError) or "other" (any other exception).
attempt_lock_fails(p, e) ==
    /\ pc[p] = "attempt_lock"
    /\ faults < MaxFaults
    /\ faults' = faults + 1
    /\ errors' = [errors EXCEPT ![p] = Append(@, e)]
    /\ held' = [held EXCEPT ![p] = {}]
    /\ IF retries(e, attempts[p])
       THEN /\ attempts' = [attempts EXCEPT ![p] = @ + 1]
            /\ cursor' = [cursor EXCEPT ![p] = 1]
            /\ UNCHANGED <<pc, txn, error>>
       ELSE /\ pc' = [pc EXCEPT ![p] = "raised"]
            /\ error' = [error EXCEPT ![p] = e]
            /\ txn' = [txn EXCEPT ![p] = FALSE]
            /\ UNCHANGED <<attempts, cursor>>
    /\ UNCHANGED <<args, mode, tree_ids, body_runs, ops, calls>>
    /\ UNCHANGED <<storeVars, opVars>>
    /\ UNCHANGED copyVars

\* The with block is left: the transaction ends and with it every row lock;
\* an exception of the body propagates to the caller.
lock_mptt_exit(p) ==
    /\ pc[p] = "exit"
    /\ held' = [held EXCEPT ![p] = {}]
    /\ txn' = [txn EXCEPT ![p] = FALSE]
    /\ pc' = [pc EXCEPT ![p] = IF error[p] = "none" THEN "after" ELSE "raised"]
    /\ UNCHANGED <<args, mode, tree_ids, cursor, attempts, body_runs, error, errors>>
    /\ UNCHANGED <<storeVars, opVars, countVars>>
    /\ UNCHANGED copyVars

\* ------------------------------------------- opaque callers of lock_mptt
\* The argument tuples the opaque callers pass (partial_rebuild passes one id).
LockArgs ==
    { << >>, <<None>>, <<1>>, <<4>>, <<3, 1>>, <<1, 2>>, <<2, 1>>, <<2, 2>>, <<None, 2>> }

\* A caller enters "with lock_mptt(*a)" under flags m.
lock_call(p, a, m) ==
    /\ pc[p] = "idle"
    /\ calls < MaxCalls
    /\ calls' = calls + 1
    /\ call' = [call EXCEPT ![p] = [NoCall EXCEPT !.op = "lock"]]
    /\ args' = [args EXCEPT ![p] = a]
    /\ mode' = [mode EXCEPT ![p] = m]
    /\ pc' = [pc EXCEPT ![p] = "lock_mptt"]
    /\ UNCHANGED <<tree_ids, cursor, held, txn, attempts, body_runs, error, errors>>
    /\ UNCHANGED <<ops, faults>>
    /\ UNCHANGED <<storeVars, node, target, frames, clone, moved, signals>>
    /\ UNCHANGED copyVars

\* The caller's body runs to its end.
body_run(p) ==
    /\ pc[p] = "body"
    /\ call[p].op = "lock"
    /\ body_runs' = [body_runs EXCEPT ![p] = @ + 1]
    /\ pc' = [pc EXCEPT ![p] = "exit"]
    /\ UNCHANGED <<args, mode, tree_ids, cursor, held, txn, attempts, error, errors>>
    /\ UNCHANGED <<storeVars, opVars, countVars>>
    /\ UNCHANGED copyVars

\* What a finished call leaves behind in the process: nothing.
forget_call(p) ==
    /\ call' = [call EXCEPT ![p] = NoCall]
    /\ node' = [node EXCEPT ![p] = NoneInstance]
    /\ target' = [target EXCEPT ![p] = NoneInstance]
    /\ args' = [args EXCEPT ![p] = << >>]
    /\ mode' = [mode EXCEPT ![p] = NormalMode]
    /\ tree_ids' = [tree_ids EXCEPT ![p] = << >>]
    /\ cursor' = [cursor EXCEPT ![p] = 1]
    /\ attempts' = [attempts EXCEPT ![p] = 0]
    /\ body_runs' = [body_runs EXCEPT ![p] = 0]
    /\ error' = [error EXCEPT ![p] = "none"]
    /\ errors' = [errors EXCEPT ![p] = << >>]
    /\ frames' = [frames EXCEPT ![p] = << >>]
    /\ clone' = [clone EXCEPT ![p] = NoClone]

\* The caller's body raises e: the exception is thrown into lock_mptt at its
\* yield.  With no lock taken it propagates.  Inside _attempt_lock the
\* transaction rolls back, and the except clause of lock_mptt, which encloses
\* the yield, either starts the second _attempt_lock or lets e propagate.
body_fails(p, e) ==
    /\ pc[p] = "body"
    /\ call[p].op = "lock"
    /\ faults < MaxFaults
    /\ faults' = faults + 1
    /\ body_runs' = [body_runs EXCEPT ![p] = @ + 1]
    /\ held' = [held EXCEPT ![p] = {}]
    /\ IF locking_active(mode[p], tree_ids[p]) /\ retries(e, attempts[p])
       THEN /\ attempts' = [attempts EXCEPT ![p] = @ + 1]
            /\ cursor' = [cursor EXCEPT ![p] = 1]
            /\ pc' = [pc EXCEPT ![p] = "attempt_lock"]
            /\ UNCHANGED <<txn, error>>
       ELSE /\ pc' = [pc EXCEPT ![p] = "raised"]
            /\ error' = [error EXCEPT ![p] = e]
            /\ txn' = [txn EXCEPT ![p] = FALSE]
            /\ UNCHANGED <<attempts, cursor>>
    /\ UNCHANGED <<args, mode, tree_ids, errors, ops, calls>>
    /\ UNCHANGED <<storeVars, opVars>>
    /\ UNCHANGED copyVars

\* lock_mptt has yielded a second time, inside the second _attempt_lock: the
\* with statement raises RuntimeError (generator didn't stop after throw())
\* to the caller.  The generator is left suspended in its transaction
\* until it is finalised.
generator_did_not_stop(p) ==
    /\ pc[p] = "yielded"
    /\ pc' = [pc EXCEPT ![p] = "raised"]
    /\ error' = [error EXCEPT ![p] = "RuntimeError"]
    /\ UNCHANGED <<held, txn>>
    /\ UNCHANGED <<args, mode, tree_ids, cursor, attempts, body_runs, errors>>
    /\ UNCHANGED <<storeVars, opVars, countVars>>
    /\ UNCHANGED copyVars

\* The suspended generator is finalised while the caller handles the error:
\* its transaction rolls back and the row locks go.
generator_finalised(p) ==
    /\ pc[p] = "raised"
    /\ call[p].op = "lock"
    /\ txn[p]
    /\ held' = [held EXCEPT ![p] = {}]
    /\ txn' = [txn EXCEPT ![p] = FALSE]
    /\ UNCHANGED <<pc, args, mode, tree_ids, cursor, attempts, body_runs, error, errors>>
    /\ UNCHANGED <<storeVars, opVars, countVars>>
    /\ UNCHANGED copyVars

\* The caller goes on after the with statement, or with the exception, once
\* no generator of the call is left suspended.
lock_return(p) ==
    /\ pc[p] \in {"after", "raised"}
    /\ call[p].op = "lock"
    /\ ~txn[p]
    /\ pc' = [pc EXCEPT ![p] = "idle"]
    /\ forget_call(p)
    /\ UNCHANGED <<held, txn, moved, signals, storeVars, countVars>>
    /\ UNCHANGED copyVars

NextLock ==
    \E p \in Procs :
        \/ \E a \in LockArgs, m \in Modes : lock_call(p, a, m)
        \/ lock_mptt_enter(p)
        \/ attempt_lock_step(p)
        \/ \E e \in {"deadlock", "operational", "other"} : attempt_lock_fails(p, e)
        \/ body_run(p)
        \/ lock_mptt_exit(p)
        \/ lock_return(p)

SpecLock == InitLock /\ [][NextLock]_vars

\* The lock manager with bodies that raise as well.
NextLockBody ==
    \E p \in Procs :
        \/ \E a \in LockArgs, m \in Modes : lock_call(p, a, m)
        \/ lock_mptt_enter(p)
        \/ attempt_lock_step(p)
        \/ \E e \in {"deadlock", "operational", "other"} : attempt_lock_fails(p, e)
        \/ body_run(p)
        \/ \E e \in {"deadlock", "operational", "other"} : body_fails(p, e)
        \/ generator_did_not_stop(p)
        \/ generator_finalised(p)
        \/ lock_mptt_exit(p)
        \/ lock_return(p)

SpecLockBody == InitLock /\ [][NextLockBody]_vars

\* The lock manager with a database that raises nothing: what a process does
\* once it has called lock_mptt, and the calls themselves.
lock_progress(p) ==
    \/ lock_mptt_enter(p)
    \/ attempt_lock_step(p)
    \/ body_run(p)
    \/ lock_mptt_exit(p)
    \/ lock_return(p)

NextLockFair ==
    \E p \in Procs :
        \/ \E a \in LockArgs, m \in Modes : lock_call(p, a, m)
        \/ lock_progress(p)

\* A process that can take a step takes it (the scheduler runs every process,
\* the database grants a free row lock), and bodies end.
SpecLockFair ==
    InitLock /\ [][NextLockFair]_vars /\ \A p \in Procs : WF_vars(lock_progress(p))

\* ------------------------------------------------ move_node and copy_node
\* A call a request handler makes; the other arguments of copy_node have their
\* defaults: no exclusions, can_edit_source_channel None (false), no mods.
Request(op, n, t, position, batch_size) ==
    [op |-> op, node |-> n, target |-> t, position |-> position, batch_size |-> batch_size,
     excluded |-> {}, can_edit_source_channel |-> FALSE, mods |-> NoMods]

\* The move_node calls made: a child made the sibling of a root (right and
\* left), a child moved into another tree, a node moved under its own
\* descendant, a move with no target, a root moved into another tree, a move
\* inside one tree, a root made the sibling of another root.
MoveRequests ==
    { Request("move", 3, 4, "right", BATCH_SIZE),
      Request("move", 5, 1, "left", BATCH_SIZE),
      Request("move", 5, 3, "last-child", BATCH_SIZE),
      Request("move", 2, 3, "first-child", BATCH_SIZE),
      Request("move", 3, None, "last-child", BATCH_SIZE),
      Request("move", 4, 2, "left", BATCH_SIZE),
      Request("move", 3, 1, "first-child", BATCH_SIZE),
      Request("move", 4, 1, "left", BATCH_SIZE) }

\* The copy_node calls made, with the default batch size (one deep unit) and
\* with batch sizes 1 and 2 (shallow units, recursing): to a new tree, as a
\* child, as the sibling of a child, as the sibling of a root.
CopyRequests ==
    { Request("copy", 2, None, "last-child", BATCH_SIZE),
      Request("copy", 2, None, "last-child", 2),
      Request("copy", 5, 2, "last-child", BATCH_SIZE),
      Request("copy", 3, 5, "left", BATCH_SIZE),
      Request("copy", 4, 2, "first-child", 2),
      Request("copy", 5, 3, "right", 1),
      Request("copy", 3, 4, "right", 1) }

Requests == MoveRequests \cup CopyRequests

\* The trees whose rows differ between two stores.
written_trees(d1, d2) ==
    {d1[n].tree_id : n \in {m \in DOMAIN d1 : d1[m] # d2[m]}}
    \cup {d2[n].tree_id : n \in {m \in DOMAIN d2 : m \notin DOMAIN d1 \/ d1[m] # d2[m]}}

\* An UPDATE waits while another transaction holds row locks in a tree it changes.
write_free(p, d1, d2) ==
    \A q \in Procs \ {p} : held[q] \cap {d1[n].tree_id : n \in {m \in DOMAIN d1 : d1[m] # d2[m]}} = {}

\* The log of _get_next_tree_id after an operation that left the counter at
\* tid: a call adds the id it returned and the root that received it.
issue(tid, root) ==
    IF tid # tree_id_seq THEN Append(issued, [id |-> tid, root |-> root]) ELSE issued

\* A request handler reads the node and the target it will pass to
\* move_node or copy_node (target None: NoneInstance).
load_request(p, r) ==
    /\ pc[p] = "idle"
    /\ ops < MaxOps
    /\ ops' = ops + 1
    /\ node' = [node EXCEPT ![p] = Instance(db, r.node)]
    /\ target' = [target EXCEPT ![p] =
                    IF r.target = None THEN NoneInstance ELSE Instance(db, r.target)]
    /\ call' = [call EXCEPT ![p] =
                  [op |-> r.op, position |-> r.position, batch_size |-> r.batch_size,
                   excluded |-> r.excluded,
                   can_edit_source_channel |-> r.can_edit_source_channel,
                   mods |-> r.mods]]
    /\ pc' = [pc EXCEPT ![p] = "loaded"]
    /\ UNCHANGED <<lockVars, error, storeVars, frames, clone, moved, signals, calls, faults>>
    /\ UNCHANGED <<payload, related, totals, reports, created>>

load(p, r) == load_request(p, r) /\ UNCHANGED observed

\* move_node: "with self.lock_mptt(node.tree_id, target.tree_id)"; with
\* target None the attribute access raises AttributeError.
move_node_call(p) ==
    /\ pc[p] = "loaded"
    /\ call[p].op = "move"
    /\ IF target[p].id = None
       THEN /\ pc' = [pc EXCEPT ![p] = "raised"]
            /\ error' = [error EXCEPT ![p] = "AttributeError"]
            /\ args' = args
       ELSE /\ pc' = [pc EXCEPT ![p] = "lock_mptt"]
            /\ args' = [args EXCEPT ![p] = <<node[p].tree_id, target[p].tree_id>>]
            /\ error' = error
    /\ UNCHANGED <<mode, tree_ids, cursor, held, txn, attempts, body_runs, errors>>
    /\ UNCHANGED <<storeVars, opVars, countVars>>
    /\ UNCHANGED copyVars

\* move_node, inside the lock: _mptt_refresh(node, target).
move_node_refresh(p) ==
    /\ pc[p] = "body"
    /\ call[p].op = "move"
    /\ node' = [node EXCEPT ![p] = mptt_refresh(db, @)]
    /\ target' = [target EXCEPT ![p] = mptt_refresh(db, @)]
    /\ pc' = [pc EXCEPT ![p] = "refreshed"]
    /\ UNCHANGED <<lockVars, error, storeVars, call, frames, clone, moved, signals, countVars>>
    /\ UNCHANGED copyVars

\* move_node, inside the lock: _move_node and node.save(skip_lock=True); an
\* InvalidMove leaves the with block as an exception.  What the update found
\* and left is kept until the call returns: the rows before it, the refreshed
\* node, and the prerequisite records before and after it.
move_node_update(p) ==
    /\ pc[p] = "refreshed"
    /\ LET r == mptt_move_node(db, node[p], target[p], call[p].position, tree_id_seq)
       IN IF r.raised
          THEN /\ error' = [error EXCEPT ![p] = "InvalidMove"]
               /\ UNCHANGED <<storeVars, node, moved, related, clone>>
          ELSE /\ write_free(p, db, save(r.db, r.node))
               /\ db' = save(r.db, r.node)
               /\ node' = [node EXCEPT ![p] = r.node]
               /\ tree_id_seq' = r.tid
               /\ issued' = issue(r.tid, node[p].id)
               /\ moved' = [moved EXCEPT ![p] =
                              Append(@, <<node[p].id, target[p].id, call[p].position>>)]
               /\ related' = delete_prerequisites(related, r.unlinked)
               /\ clone' = [clone EXCEPT ![p] =
                              [kind |-> "move", undo |-> db, was |-> node[p],
                               links |-> related.prerequisites,
                               kept |-> related'.prerequisites]]
               /\ UNCHANGED <<error, next_pk>>
    /\ pc' = [pc EXCEPT ![p] = "exit"]
    /\ UNCHANGED <<lockVars, call, target, frames, signals, countVars>>
    /\ UNCHANGED <<payload, totals, reports, created, observed>>

\* A move_node that sends the signal before it leaves the with block.
move_node_send_in_lock(p) ==
    /\ pc[p] = "exit"
    /\ call[p].op = "move"
    /\ error[p] = "none"
    /\ Len(signals[p]) < Len(moved[p])
    /\ signals' = [signals EXCEPT ![p] =
                     Append(@, <<node[p].id, target[p].id, call[p].position>>)]
    /\ UNCHANGED <<pc, lockVars, error, storeVars, call, node, target, frames, clone,
                   moved, countVars>>
    /\ UNCHANGED copyVars

\* move_node, after the with block: node_moved.send(instance, target, position),
\* and the call returns.
move_node_send(p) ==
    /\ pc[p] = "after"
    /\ call[p].op = "move"
    /\ signals' = [signals EXCEPT ![p] =
                     Append(@, <<node[p].id, target[p].id, call[p].position>>)]
    /\ pc' = [pc EXCEPT ![p] = "idle"]
    /\ forget_call(p)
    /\ UNCHANGED <<held, txn, moved, storeVars, countVars>>
    /\ UNCHANGED copyVars

\* What a finished copy_node call leaves behind of its accounting: nothing.
forget_copy(p) ==
    /\ totals' = [totals EXCEPT ![p] = << >>]
    /\ reports' = [reports EXCEPT ![p] = << >>]
    /\ created' = [created EXCEPT ![p] = {}]

\* The exception of a move_node or copy_node call reaches its caller.
op_raise(p) ==
    /\ pc[p] = "raised"
    /\ call[p].op \in {"move", "copy"}
    /\ pc' = [pc EXCEPT ![p] = "idle"]
    /\ forget_call(p)
    /\ forget_copy(p)
    /\ UNCHANGED <<held, txn, moved, signals, storeVars, countVars, payload, related,
                   observed>>

\* copy_node: the total is counted and published, and _copy starts on the node.
copy_node_call(p) ==
    /\ pc[p] = "loaded"
    /\ call[p].op = "copy"
    /\ totals' = [totals EXCEPT ![p] =
                    Append(@, Cardinality(all_nodes_to_copy(db, node[p], call[p].excluded)))]
    /\ pc' = [pc EXCEPT ![p] = "copy"]
    /\ UNCHANGED <<lockVars, error, storeVars, opVars, countVars>>
    /\ UNCHANGED <<payload, related, reports, created, observed>>

\* _copy's test: a span under the batch size is copied in one deep unit.
is_deep(o, batch_size) == o.rght - o.lft < batch_size

\* _deep_copy before the lock: the nodes to copy are read and cloned
\* (_recurse_to_create_tree: mods go to the root of the copy only).
deep_copy_clone(p) ==
    /\ pc[p] = "copy"
    /\ is_deep(node[p], call[p].batch_size)
    /\ LET S == all_nodes_to_copy(db, node[p], call[p].excluded)
           rows == [n \in S \cup {node[p].id} |->
                      IF n \in S THEN db[n] ELSE RowOf(node[p])]
           order == preorder(rows, S, node[p].id)
       IN clone' = [clone EXCEPT ![p] =
                      [kind |-> "deep", nodes |-> S, rows |-> rows,
                       data |-> [n \in Range(order) |->
                                   clone_node(n, payload[n],
                                              call[p].can_edit_source_channel,
                                              IF n = node[p].id THEN call[p].mods
                                              ELSE NoMods)],
                       source_copy_id_map |-> << >>, made |-> {}, undo |-> << >>]]
    /\ args' = [args EXCEPT ![p] = <<target[p].tree_id>>]
    /\ pc' = [pc EXCEPT ![p] = "lock_mptt"]
    /\ UNCHANGED <<mode, tree_ids, cursor, held, txn, attempts, body_runs, error, errors>>
    /\ UNCHANGED <<storeVars, call, node, target, frames, moved, signals, countVars>>
    /\ UNCHANGED copyVars

\* The rows build_tree_nodes makes of the cloned tree, for bulk_create.
build_tree_nodes(c, root, tgt, position, tree_id, first_pk) ==
    LET order == preorder(c.rows, c.nodes, root)
        pk(n) == first_pk + IndexOf(order, n)
        t == treeify(c.rows, c.nodes, root, build_cursor(tgt, position),
                     build_level(tgt, position))
    IN [n \in {pk(r.src) : r \in t.rows} |->
          LET r == CHOOSE x \in t.rows : pk(x.src) = n
          IN Row(tree_id, r.lft, r.rght, r.level,
                 IF r.src = root THEN deep_copy_parent(tgt, position)
                 ELSE pk(c.rows[r.src].parent),
                 c.rows[r.src].kind)]

\* _deep_copy inside the lock: the target is refreshed, build_tree_nodes lays
\* the clones out and opens the space, and bulk_create inserts them.
deep_copy_insert(p) ==
    /\ pc[p] = "body"
    /\ call[p].op = "copy"
    /\ clone[p].kind = "deep"
    /\ LET tgt == mptt_refresh(db, target[p])
           tid == IF tgt.id = None THEN tree_id_seq + 1 ELSE tree_id_seq
           tree_id == IF tgt.id = None THEN tid ELSE tgt.tree_id
           new == build_tree_nodes(clone[p], node[p].id, tgt, call[p].position,
                                   tree_id, next_pk)
           count == Cardinality(DOMAIN new)
           order == preorder(clone[p].rows, clone[p].nodes, node[p].id)
           spaced == IF tgt.id = None THEN db
                     ELSE create_space(db, 2 * count,
                                       build_cursor(tgt, call[p].position) - 1, tree_id)
       IN /\ next_pk + count <= MaxNodes
          /\ write_free(p, db, spaced)
          /\ db' = [n \in DOMAIN db \cup DOMAIN new |->
                      IF n \in DOMAIN new THEN new[n] ELSE spaced[n]]
          /\ payload' = [n \in DOMAIN db \cup DOMAIN new |->
                           IF n \in DOMAIN new THEN clone[p].data[order[n - next_pk]]
                           ELSE payload[n]]
          /\ clone' = [clone EXCEPT
                         ![p].source_copy_id_map = [n \in Range(order) |->
                                                      next_pk + IndexOf(order, n)],
                         ![p].made = DOMAIN new,
                         ![p].undo = db]
          /\ created' = [created EXCEPT ![p] = @ \cup DOMAIN new]
          /\ next_pk' = next_pk + count
          /\ tree_id_seq' = tid
          /\ issued' = issue(tid, next_pk + 1)
          /\ target' = [target EXCEPT ![p] = tgt]
    /\ pc' = [pc EXCEPT ![p] = "exit"]
    /\ UNCHANGED <<lockVars, error, call, node, frames, moved, signals, countVars>>
    /\ UNCHANGED <<related, totals, reports, observed>>

\* _shallow_copy before the lock: the node alone is cloned.
shallow_copy_clone(p) ==
    /\ pc[p] = "copy"
    /\ ~is_deep(node[p], call[p].batch_size)
    /\ clone' = [clone EXCEPT ![p] =
                   [kind |-> "shallow",
                    data |-> clone_node(node[p].id, payload[node[p].id],
                                        call[p].can_edit_source_channel, call[p].mods),
                    made |-> {}]]
    /\ args' = [args EXCEPT ![p] = <<target[p].tree_id>>]
    /\ pc' = [pc EXCEPT ![p] = "lock_mptt"]
    /\ UNCHANGED <<mode, tree_ids, cursor, held, txn, attempts, body_runs, error, errors>>
    /\ UNCHANGED <<storeVars, call, node, target, frames, moved, signals, countVars>>
    /\ UNCHANGED copyVars

\* _shallow_copy inside the lock: the target is refreshed, insert_node places
\* the one new node and it is saved.
shallow_copy_insert(p) ==
    /\ pc[p] = "body"
    /\ call[p].op = "copy"
    /\ clone[p].kind = "shallow"
    /\ next_pk + 1 <= MaxNodes
    /\ LET tgt == mptt_refresh(db, target[p])
           fresh == [NoneInstance EXCEPT !.id = next_pk + 1, !.kind = node[p].kind]
           r == insert_node(db, fresh, tgt, call[p].position, tree_id_seq)
       IN /\ write_free(p, db, r.db)
          /\ db' = force_insert(r.db, r.node)
          /\ payload' = [n \in DOMAIN db \cup {next_pk + 1} |->
                           IF n = next_pk + 1 THEN clone[p].data ELSE payload[n]]
          /\ tree_id_seq' = r.tid
          /\ issued' = issue(r.tid, next_pk + 1)
          /\ target' = [target EXCEPT ![p] = tgt]
          /\ clone' = [clone EXCEPT ![p] =
                         [kind |-> "shallow", data |-> clone[p].data,
                          node_copy |-> r.node, made |-> {next_pk + 1}, undo |-> db]]
    /\ created' = [created EXCEPT ![p] = @ \cup {next_pk + 1}]
    /\ next_pk' = next_pk + 1
    /\ pc' = [pc EXCEPT ![p] = "exit"]
    /\ UNCHANGED <<lockVars, error, call, node, frames, moved, signals, countVars>>
    /\ UNCHANGED <<related, totals, reports, observed>>

\* self.filter(pk=target.pk).update(changed=True), when there is a target.
mark_changed(pl, tgt) ==
    IF tgt.id = None THEN pl
    ELSE [n \in DOMAIN pl |-> IF n = tgt.id THEN [pl[n] EXCEPT !.changed = TRUE] ELSE pl[n]]

\* _deep_copy after the lock: the target is marked changed, the dependent
\* records of the nodes the nodes_to_copy query selects now are copied, and
\* the length of the nodes_to_copy read before is reported.
deep_copy_finish(p) ==
    /\ pc[p] = "after"
    /\ call[p].op = "copy"
    /\ clone[p].kind = "deep"
    /\ payload' = mark_changed(payload, target[p])
    /\ LET r == copy_associated_objects(related, clone[p].source_copy_id_map,
                                        all_nodes_to_copy(db, node[p], call[p].excluded))
       IN /\ related' = r.rel
          /\ IF r.raised # "none"
             THEN /\ error' = [error EXCEPT ![p] = r.raised]
                  /\ pc' = [pc EXCEPT ![p] = "raised"]
                  /\ UNCHANGED <<reports, clone>>
             ELSE /\ reports' = [reports EXCEPT ![p] =
                                   Append(@, Cardinality(clone[p].nodes))]
                  /\ clone' = [clone EXCEPT ![p] = NoClone]
                  /\ pc' = [pc EXCEPT ![p] = "unwind"]
                  /\ error' = error
    /\ UNCHANGED <<lockVars, storeVars, call, node, target, frames, moved, signals,
                   countVars, totals, created, observed>>

\* node.get_children().order_by("lft"), less the excluded ones, as instances
\* read now; a node that is a leaf by its own coordinates has none.
get_children(d, o, excluded) ==
    IF o.rght - o.lft = 1 THEN << >>
    ELSE LET kids == SortByLft(d, {c \in DOMAIN d : d[c].parent = o.id /\ c \notin excluded})
         IN [i \in 1..Len(kids) |-> Instance(d, kids[i])]

\* _shallow_copy after the lock: the dependent records of the node are copied
\* and 1 is reported; then _copy's loop header: the children of the source
\* are read, to be copied under the new node.
shallow_copy_finish(p) ==
    /\ pc[p] = "after"
    /\ call[p].op = "copy"
    /\ clone[p].kind = "shallow"
    /\ LET r == copy_associated_objects(related, node[p].id :> clone[p].node_copy.id,
                                        {node[p].id})
       IN /\ related' = r.rel
          /\ IF r.raised # "none"
             THEN /\ error' = [error EXCEPT ![p] = r.raised]
                  /\ pc' = [pc EXCEPT ![p] = "raised"]
                  /\ UNCHANGED <<reports, clone, frames>>
             ELSE /\ reports' = [reports EXCEPT ![p] = Append(@, 1)]
                  /\ frames' = [frames EXCEPT ![p] =
                                  Append(@, [children |-> get_children(db, node[p],
                                                                       call[p].excluded),
                                             target |-> clone[p].node_copy])]
                  /\ clone' = [clone EXCEPT ![p] = NoClone]
                  /\ pc' = [pc EXCEPT ![p] = "unwind"]
                  /\ error' = error
    /\ UNCHANGED <<lockVars, storeVars, call, node, target, moved, signals, countVars,
                   payload, totals, created, observed>>

\* _copy's loop: the next child is copied as the last child of the new node,
\* with no pk and no mods.
copy_child(p) ==
    /\ pc[p] = "unwind"
    /\ frames[p] # << >>
    /\ LET top == frames[p][Len(frames[p])]
       IN /\ top.children # << >>
          /\ node' = [node EXCEPT ![p] = Head(top.children)]
          /\ target' = [target EXCEPT ![p] = top.target]
          /\ frames' = [frames EXCEPT ![p][Len(frames[p])].children = Tail(@)]
    /\ call' = [call EXCEPT ![p].position = "last-child", ![p].mods = NoMods]
    /\ pc' = [pc EXCEPT ![p] = "copy"]
    /\ UNCHANGED <<lockVars, error, storeVars, clone, moved, signals, countVars>>
    /\ UNCHANGED copyVars

\* _copy's loop is over: this _copy returns to the one that called it.
copy_pop(p) ==
    /\ pc[p] = "unwind"
    /\ frames[p] # << >>
    /\ frames[p][Len(frames[p])].children = << >>
    /\ frames' = [frames EXCEPT ![p] = SubSeq(@, 1, Len(@) - 1)]
    /\ UNCHANGED <<pc, lockVars, error, storeVars, call, node, target, clone, moved,
                   signals, countVars>>
    /\ UNCHANGED copyVars

\* copy_node returns.
copy_return(p) ==
    /\ pc[p] = "unwind"
    /\ frames[p] = << >>
    /\ pc' = [pc EXCEPT ![p] = "idle"]
    /\ forget_call(p)
    /\ forget_copy(p)
    /\ UNCHANGED <<held, txn, moved, signals, storeVars, countVars, payload, related,
                   observed>>

\* --------------------------------------------- copy_node runs, one at a time
\* The forest the copies start from: R(S(c1(e), c2(g), x)), as the nodes
\* 1(2(3(4), 5(6), 7)); e, g and x are videos, g is frozen.
CopyForest ==
    (1 :> Row(1, 1, 14, 0, None, TOPIC)) @@ (2 :> Row(1, 2, 13, 1, 1, TOPIC))
    @@ (3 :> Row(1, 3, 6, 2, 2, TOPIC)) @@ (4 :> Row(1, 4, 5, 3, 3, "video"))
    @@ (5 :> Row(1, 7, 10, 2, 2, TOPIC)) @@ (6 :> Row(1, 8, 9, 3, 5, "video"))
    @@ (7 :> Row(1, 11, 12, 2, 2, "video"))

\* Their dependent records: c2 has an assessment item that owns a file, c2
\* and g carry the channel's tag "t", x has a file.
CopyRelated ==
    Related({[id |-> 2, contentnode |-> None, assessment_item |-> 1],
             [id |-> 3, contentnode |-> 7, assessment_item |-> None]},
            {[id |-> 1, contentnode |-> 5, assessment_id |-> "a"]},
            {[id |-> 4, tag_name |-> "t", channel |-> 1]},
            {[id |-> 5, contenttag |-> 4, contentnode |-> 5],
             [id |-> 6, contenttag |-> 4, contentnode |-> 6]},
            6)

\* The same with a file of c1 and the tag on e as well.
CopyRelatedFiles ==
    [CopyRelated EXCEPT
        !.files = @ \cup {[id |-> 7, contentnode |-> 3, assessment_item |-> None]},
        !.node_tags = @ \cup {[id |-> 8, contenttag |-> 4, contentnode |-> 4]},
        !.last = 8]

\* The same with an assessment item of c1 that owns a file.
CopyRelatedItems ==
    [CopyRelated EXCEPT
        !.items = @ \cup {[id |-> 7, contentnode |-> 3, assessment_id |-> "b"]},
        !.files = @ \cup {[id |-> 8, contentnode |-> None, assessment_item |-> 7]},
        !.last = 8]

InitCopy ==
    /\ db = CopyForest
    /\ tree_id_seq = 1
    /\ issued = << >>
    /\ next_pk = 7
    /\ payload = [n \in 1..7 |->
                    [Payload(None, n = 6, FALSE) EXCEPT
                        !.original_channel_id = IF n = 6 THEN 1 ELSE None,
                        !.original_source_node_id = IF n = 6 THEN 9 ELSE None]]
    /\ related \in {CopyRelated, CopyRelatedFiles, CopyRelatedItems}
    /\ InitProcs

\* A copy_node call with its exclusions, the caller's rights and its overrides.
CopyRequest(n, t, position, batch_size, excluded, can_edit_source_channel, mods) ==
    [op |-> "copy", node |-> n, target |-> t, position |-> position,
     batch_size |-> batch_size, excluded |-> excluded,
     can_edit_source_channel |-> can_edit_source_channel, mods |-> mods]

\* The copy_node calls made: S before itself under R, in units of under 4
\* coordinates, whole and without x; c2 to a new tree, in one unit and node by
\* node, with and without the right to edit, with the freeze overridden; c2
\* before and into c1; x before c2, deep and shallow; the copy of a copy.
CopyMenu ==
    { CopyRequest(2, 1, "first-child", 4, {}, FALSE, NoMods),
      CopyRequest(2, 1, "first-child", 4, {7}, FALSE, NoMods),
      CopyRequest(5, None, "last-child", BATCH_SIZE, {}, TRUE, NoMods),
      CopyRequest(5, None, "last-child", 2, {}, TRUE, NoMods),
      CopyRequest(5, None, "last-child", 2, {}, FALSE, Unfreeze),
      CopyRequest(5, None, "last-child", BATCH_SIZE, {}, TRUE, Unsourced),
      CopyRequest(5, None, "last-child", 2, {}, TRUE, Resourced),
      CopyRequest(5, 3, "left", BATCH_SIZE, {}, FALSE, NoMods),
      CopyRequest(5, 3, "first-child", BATCH_SIZE, {}, FALSE, NoMods),
      CopyRequest(7, 5, "left", BATCH_SIZE, {}, FALSE, NoMods),
      CopyRequest(7, 5, "left", 1, {}, FALSE, NoMods),
      CopyRequest(8, None, "last-child", BATCH_SIZE, {}, TRUE, NoMods) }

\* The one process that copies.
CopyProcs == {1}

\* A handler reads the node and the target of a copy_node call; the request
\* and the store the run starts from are noted.
copy_load(p, r) ==
    /\ r.node \in DOMAIN db
    /\ r.target # None => r.target \in DOMAIN db
    /\ load_request(p, r)
    /\ observed' = [open |-> TRUE, request |-> r, db |-> db, payload |-> payload,
                    related |-> related, next_pk |-> next_pk, tree_id_seq |-> tree_id_seq]

\* A transaction whose end in an exception undoes nothing.
rollback_keeps_inserted(d, undo, made) == d

\* The rows a rolled-back transaction leaves: the inserted rows are gone and
\* the rows of the trees it wrote are as they were.
rollback(d, undo, made) ==
    [n \in DOMAIN d \ made |-> IF n \in DOMAIN undo THEN undo[n] ELSE d[n]]

\* The with block of a copy unit ends in an exception after the insert (a
\* database error of the save, of bulk_create or of the commit): the
\* transaction lock_mptt opened is rolled back.
copy_insert_fails(p) ==
    /\ pc[p] = "exit"
    /\ call[p].op = "copy"
    /\ txn[p]
    /\ error[p] = "none"
    /\ faults < MaxFaults
    /\ faults' = faults + 1
    /\ db' = rollback(db, clone[p].undo, clone[p].made)
    /\ payload' = [n \in DOMAIN db' |-> payload[n]]
    /\ error' = [error EXCEPT ![p] = "DatabaseError"]
    /\ UNCHANGED <<pc, lockVars, tree_id_seq, issued, next_pk, opVars, ops, calls>>
    /\ UNCHANGED <<related, totals, reports, created, observed>>

\* The dependent-record copy of a unit ends in a database error at its first
\* statement, after the with block and (deep copy) the update of the target.
copy_related_fails(p) ==
    /\ pc[p] = "after"
    /\ call[p].op = "copy"
    /\ faults < MaxFaults
    /\ faults' = faults + 1
    /\ payload' = IF clone[p].kind = "deep" THEN mark_changed(payload, target[p])
                  ELSE payload
    /\ error' = [error EXCEPT ![p] = "DatabaseError"]
    /\ pc' = [pc EXCEPT ![p] = "raised"]
    /\ UNCHANGED <<lockVars, storeVars, opVars, ops, calls>>
    /\ UNCHANGED <<related, totals, reports, created, observed>>

\* _deep_copy applied to the request of a run in the store the run started
\* from: the rows and the payloads one deep copy unit leaves.
deep_copy_store(run) ==
    LET d == run.db
        r == run.request
        o == Instance(d, r.node)
        tgt == IF r.target = None THEN NoneInstance ELSE Instance(d, r.target)
        S == all_nodes_to_copy(d, o, r.excluded)
        c == [nodes |-> S, rows |-> [n \in S |-> d[n]]]
        order == preorder(c.rows, S, o.id)
        tree_id == IF tgt.id = None THEN run.tree_id_seq + 1 ELSE tgt.tree_id
        new == build_tree_nodes(c, o.id, tgt, r.position, tree_id, run.next_pk)
        spaced == IF tgt.id = None THEN d
                  ELSE create_space(d, 2 * Cardinality(DOMAIN new),
                                    build_cursor(tgt, r.position) - 1, tree_id)
    IN [db |-> [n \in DOMAIN d \cup DOMAIN new |->
                  IF n \in DOMAIN new THEN new[n] ELSE spaced[n]],
        payload |-> mark_changed(
                      [n \in DOMAIN d \cup DOMAIN new |->
                         IF n \in DOMAIN new
                         THEN clone_node(order[n - run.next_pk],
                                         run.payload[order[n - run.next_pk]],
                                         r.can_edit_source_channel,
                                         IF order[n - run.next_pk] = o.id THEN r.mods
                                         ELSE NoMods)
                         ELSE run.payload[n]],
                      tgt)]

NextCopy ==
    \E p \in CopyProcs :
        \/ \E r \in CopyMenu : copy_load(p, r)
        \/ copy_node_call(p)
        \/ deep_copy_clone(p)
        \/ shallow_copy_clone(p)
        \/ lock_mptt_enter(p)
        \/ attempt_lock_step(p)
        \/ deep_copy_insert(p)
        \/ shallow_copy_insert(p)
        \/ copy_insert_fails(p)
        \/ lock_mptt_exit(p)
        \/ copy_related_fails(p)
        \/ deep_copy_finish(p)
        \/ shallow_copy_finish(p)
        \/ copy_child(p)
        \/ copy_pop(p)
        \/ copy_return(p)
        \/ op_raise(p)

SpecCopy == InitCopy /\ [][NextCopy]_vars

Next ==
    \E p \in Procs :
        \/ \E r \in Requests : load(p, r)
        \/ move_node_call(p)
        \/ lock_mptt_enter(p)
        \/ attempt_lock_step(p)
        \/ move_node_refresh(p)
        \/ move_node_update(p)
        \/ lock_mptt_exit(p)
        \/ move_node_send(p)
        \/ op_raise(p)
        \/ copy_node_call(p)
        \/ deep_copy_clone(p)
        \/ deep_copy_insert(p)
        \/ deep_copy_finish(p)
        \/ shallow_copy_clone(p)
        \/ shallow_copy_insert(p)
        \/ shallow_copy_finish(p)
        \/ copy_child(p)
        \/ copy_pop(p)
        \/ copy_return(p)

Spec == Init /\ [][Next]_vars

\* The calls of two processes around one small subtree: node 2 is copied in
\* units of under 4 coordinates while 4 is copied under it and 5 is moved
\* under 3, and a move under the node's own descendant.
BatchRequests ==
    { Request("copy", 2, None, "last-child", 4),
      Request("copy", 4, 2, "first-child", 2),
      Request("move", 5, 3, "last-child", BATCH_SIZE),
      Request("move", 2, 3, "first-child", BATCH_SIZE) }

NextBatch ==
    \E p \in Procs :
        \/ \E r \in BatchRequests : load(p, r)
        \/ move_node_call(p)
        \/ lock_mptt_enter(p)
        \/ attempt_lock_step(p)
        \/ move_node_refresh(p)
        \/ move_node_update(p)
        \/ lock_mptt_exit(p)
        \/ move_node_send(p)
        \/ op_raise(p)
        \/ copy_node_call(p)
        \/ deep_copy_clone(p)
        \/ deep_copy_insert(p)
        \/ deep_copy_finish(p)
        \/ shallow_copy_clone(p)
        \/ shallow_copy_insert(p)
        \/ shallow_copy_finish(p)
        \/ copy_child(p)
        \/ copy_pop(p)
        \/ copy_return(p)

SpecBatch == Init /\ [][NextBatch]_vars

\* ------------------------------------------------------------------ claims
\* p is inside the body of a lock_mptt call that took the locking branch.
InLockedBody(p) == pc[p] = "body" /\ locking_active(mode[p], tree_ids[p])

SharedIds(p, q) == Range(tree_ids[p]) \cap Range(tree_ids[q])

\* C2 as stated: two processes whose tree-id sets share a tree id are never
\* both inside their lock_mptt bodies (locking active).
C2_SharedIdExcludes ==
    \A p, q \in Procs :
        (p # q /\ InLockedBody(p) /\ InLockedBody(q)) => SharedIds(p, q) = {}

\* C2, amended: two processes whose tree-id sets share a tree id that has at
\* least one persisted row are never both inside their bodies, and no tree is
\* locked by two processes; a process whose next tree id is locked by nobody
\* else is not blocked, so calls on disjoint sets run concurrently.
C2_MutualExclusion ==
    /\ \A p, q \in Procs :
          (p # q /\ InLockedBody(p) /\ InLockedBody(q))
              => /\ \A t \in SharedIds(p, q) : TreeRows(db, t) = {}
                 /\ held[p] \cap held[q] = {}
    /\ \A p \in Procs :
          (pc[p] = "attempt_lock"
             /\ \A q \in Procs \ {p} : tree_ids[p][cursor[p]] \notin held[q])
              => ENABLED attempt_lock_step(p)

\* One process is inside its body holding tree 1 while the other, which also
\* listed tree 1, waits for it.
C2_Witness ==
    \E p, q \in Procs :
        /\ p # q /\ InLockedBody(p) /\ 1 \in held[p]
        /\ pc[q] = "attempt_lock" /\ tree_ids[q][cursor[q]] = 1

\* p waits for a row lock that q holds.
WaitsFor(p, q) ==
    /\ p # q
    /\ pc[p] = "attempt_lock"
    /\ tree_ids[p][cursor[p]] \in held[q]

\* A set of processes each waiting for a lock held by another one of the set.
WaitCycle == \E C \in SUBSET Procs : C # {} /\ \A p \in C : \E q \in C : WaitsFor(p, q)

\* The ids are the caller's non-null ids, each once, strictly ascending, and
\* the locks held are those of the ids before the cursor.
OrderedAcquisition(p) ==
    pc[p] \in {"attempt_lock", "body", "exit"} =>
        /\ Range(tree_ids[p]) = {t \in Range(args[p]) : t # None}
        /\ \A i, j \in 1..Len(tree_ids[p]) : i < j => tree_ids[p][i] < tree_ids[p][j]
        /\ pc[p] = "attempt_lock" =>
              held[p] = {tree_ids[p][i] : i \in {j \in 1..(cursor[p] - 1) :
                                                  TreeRows(db, tree_ids[p][j]) # {}}}

\* C3: lock_mptt locks its de-duplicated non-null tree ids one at a time in
\* strictly ascending order whatever the caller's order, no set of processes
\* ever waits in a cycle, and every process that started acquiring its locks
\* eventually enters its body.
C3_OrderedNoDeadlock ==
    /\ [](\A p \in Procs : OrderedAcquisition(p))
    /\ [](~WaitCycle)
    /\ \A p \in Procs : (pc[p] = "attempt_lock") ~> (pc[p] = "body")

\* The callers passed (3, 1) and (1, 2); the first holds tree 1 and goes on
\* to tree 3 while the second waits for tree 1.
C3_Witness ==
    \E p, q \in Procs :
        /\ args[p] = <<3, 1>> /\ args[q] = <<1, 2>>
        /\ pc[p] = "attempt_lock" /\ held[p] = {1} /\ tree_ids[p][cursor[p]] = 3
        /\ WaitsFor(q, p)

\* The ids lock_mptt locks for p, once all are locked.
AllLocked(p) == {t \in Range(tree_ids[p]) : TreeRows(db, t) # {}}

\* C4: after a deadlock in the first lock attempt exactly one more attempt is
\* made; when it succeeds the body runs under the locks; when it fails too
\* the failure is raised with no third attempt and the body has not run.
C4_SingleRetry ==
    \A p \in Procs :
        /\ attempts[p] <= 2
        /\ (errors[p] # << >> /\ errors[p][1] = "deadlock") => attempts[p] = 2
        /\ (pc[p] = "body" /\ attempts[p] = 2)
              => (held[p] = AllLocked(p) /\ txn[p] /\ body_runs[p] = 0)
        /\ Len(errors[p]) <= 2
        /\ Len(errors[p]) = 2
              => /\ pc[p] = "raised" /\ error[p] = errors[p][2]
                 /\ body_runs[p] = 0 /\ held[p] = {} /\ ~txn[p]

\* One call's retry succeeded and its body runs under the lock of tree 1,
\* while another call's retry deadlocked again and raised.
C4_Witness ==
    \E p, q \in Procs :
        /\ errors[p] = <<"deadlock">> /\ pc[p] = "body" /\ held[p] = {1}
        /\ errors[q] = <<"deadlock", "deadlock">> /\ pc[q] = "raised"
        /\ error[q] = "deadlock"

\* C5: a failure of the first lock attempt that is not a deadlock is raised
\* as it is, with no retry: one attempt, no lock left, the body never ran.
C5_OtherFailurePropagates ==
    \A p \in Procs :
        (errors[p] # << >> /\ errors[p][1] # "deadlock")
            => /\ pc[p] = "raised" /\ error[p] = errors[p][1]
               /\ Len(errors[p]) = 1 /\ attempts[p] = 1
               /\ held[p] = {} /\ ~txn[p] /\ body_runs[p] = 0

\* A call ended with another OperationalError while holding a lock on tree 1
\* was already taken in that attempt (two ids listed), and one with another
\* exception.
C5_Witness ==
    \E p, q \in Procs :
        /\ errors[p] = <<"operational">> /\ pc[p] = "raised" /\ Len(tree_ids[p]) = 2
        /\ errors[q] = <<"other">> /\ pc[q] = "raised"

CoordinatesHold(d) ==
    /\ \A n \in DOMAIN d :
          /\ d[n].rght > d[n].lft
          /\ (d[n].rght - d[n].lft) % 2 = 1
          /\ IF d[n].parent = None
             THEN d[n].level = 0
             ELSE /\ d[n].parent \in DOMAIN d
                  /\ d[n].level = d[d[n].parent].level + 1
                  /\ d[d[n].parent].lft < d[n].lft
                  /\ d[n].rght < d[d[n].parent].rght
    /\ \A n, m \in DOMAIN d :
          (n # m /\ d[n].tree_id = d[m].tree_id) =>
              \/ d[n].rght < d[m].lft
              \/ d[m].rght < d[n].lft
              \/ d[n].lft < d[m].lft /\ d[m].rght < d[n].rght
              \/ d[m].lft < d[n].lft /\ d[n].rght < d[m].rght

Quiescent == \A p \in Procs : pc[p] = "idle"

\* C1: after any sequence of copy_node and move_node calls (every call has
\* returned), the forest satisfies the coordinate invariant.
C1_CoordinateInvariant == Quiescent => CoordinatesHold(db)

\* C7: when move_node is about to make its structural update, the caller
\* holds the lock of the tree its refreshed node is in and of the tree its
\* refreshed target is in.
C7_UpdateUnderBothLocks ==
    \A p \in Procs :
        (pc[p] = "refreshed" /\ call[p].op = "move" /\ ENABLED move_node_update(p))
            => {node[p].tree_id, target[p].tree_id} \subseteq held[p]

\* C8: a move_node call with no target raises nothing, and when its with
\* block is done the node is a root, alone with its subtree in its tree.
C8_MoveWithoutTarget ==
    \A p \in Procs :
        (call[p].op = "move" /\ target[p].id = None) =>
            /\ pc[p] # "raised"
            /\ pc[p] = "after" =>
                  /\ db[node[p].id].parent = None
                  /\ db[node[p].id].level = 0
                  /\ \A n \in TreeRows(db, db[node[p].id].tree_id) :
                        /\ db[node[p].id].lft <= db[n].lft
                        /\ db[n].rght <= db[node[p].id].rght

\* The signals a process sent are its completed updates, in order, less at
\* most the one of the call in flight; inside the with block the update of
\* the call has no signal yet, and a failed call leaves none owed.
SignalsFollowMoves(p) ==
    /\ Len(signals[p]) <= Len(moved[p])
    /\ \A i \in 1..Len(signals[p]) : signals[p][i] = moved[p][i]
    /\ Len(signals[p]) < Len(moved[p]) =>
          /\ Len(signals[p]) + 1 = Len(moved[p])
          /\ pc[p] \in {"exit", "after"} /\ call[p].op = "move" /\ error[p] = "none"
    /\ (pc[p] \in {"exit", "after"} /\ call[p].op = "move" /\ error[p] = "none")
          => Len(signals[p]) < Len(moved[p])
    /\ (call[p].op = "move" /\ error[p] # "none") => signals[p] = moved[p]

\* A step that sends a signal sends one, (node, target, position) of the
\* call, with no lock held and no transaction open, and the call returns.
SignalAfterRelease(p) ==
    signals'[p] # signals[p] =>
        /\ signals'[p] = Append(signals[p], <<node[p].id, target[p].id, call[p].position>>)
        /\ held[p] = {} /\ ~txn[p]
        /\ pc[p] = "after" /\ pc'[p] = "idle"

\* C9: every move_node call that completes its update sends exactly one
\* node_moved signal with (node, target, position), after the locks of the
\* call are released; a call that fails inside the lock sends none.
C9_SignalAfterLock ==
    /\ [](\A p \in Procs : SignalsFollowMoves(p))
    /\ [][\A p \in Procs : SignalAfterRelease(p)]_vars

\* One process has returned from a move and sent its one signal; the other's
\* move raised InvalidMove inside the lock and sent none.
C9_Witness ==
    \E p, q \in Procs :
        /\ pc[p] = "idle" /\ Len(signals[p]) = 1 /\ signals[p] = moved[p]
        /\ pc[q] = "raised" /\ call[q].op = "move" /\ error[q] = "InvalidMove"
        /\ signals[q] = << >>

\* C10: every _get_next_tree_id call returns an id that is not None and is
\* greater than every id returned before, and no two roots that copies with
\* no target created are in the same tree.
C10_TreeIdIssuance ==
    /\ \A i \in 1..Len(issued) : issued[i].id # None
    /\ \A i, j \in 1..Len(issued) : i < j => issued[i].id < issued[j].id
    /\ \A i, j \in 1..Len(issued) :
          (i # j /\ db[issued[i].root].parent = None /\ db[issued[j].root].parent = None)
              => db[issued[i].root].tree_id # db[issued[j].root].tree_id

\* --------------------------------------------------------- copy_node claims
\* A copy_node run has completed and is about to return.
Completed(p) ==
    /\ observed.open
    /\ call[p].op = "copy"
    /\ pc[p] = "unwind"
    /\ frames[p] = << >>

\* The subtree of n in store d, by the coordinates d holds.
Subtree(d, n) ==
    {m \in DOMAIN d : /\ d[m].tree_id = d[n].tree_id
                      /\ d[m].lft >= d[n].lft /\ d[m].rght <= d[n].rght}

\* The nodes a run is asked to copy: the source's subtree in the store the run
\* started from, less the subtrees of the excluded nodes.
RunSources ==
    Subtree(observed.db, observed.request.node)
    \ UNION {Subtree(observed.db, e) : e \in observed.request.excluded \cap DOMAIN observed.db}

\* The nodes the run of p created as copies of source n.
CopiesOf(p, n) == {c \in created[p] \cap DOMAIN db : payload[c].cloned_source = n}

\* The created nodes are one copy per source, with the parents and the order
\* of siblings that the sources have.
SameShape(p, sources) ==
    /\ Cardinality(created[p]) = Cardinality(sources)
    /\ created[p] \cap DOMAIN observed.db = {}
    /\ \A n \in sources : Cardinality(CopiesOf(p, n)) = 1
    /\ \A n \in sources \ {observed.request.node} :
          \A c \in CopiesOf(p, n) : db[c].parent \in CopiesOf(p, observed.db[n].parent)
    /\ \A n, m \in sources :
          (observed.db[n].parent = observed.db[m].parent /\ observed.db[n].lft < observed.db[m].lft)
              => \A c \in CopiesOf(p, n), e \in CopiesOf(p, m) : db[c].lft < db[e].lft

\* C11: a completed copy_node run with no exclusions, for every batch size and
\* every target, has created exactly one new node per node of the source
\* subtree, with the parent/child relations and the order of siblings of the
\* sources, each copy's cloned_source being its source.
C11_CopyCompleteness ==
    \A p \in Procs :
        (Completed(p) /\ observed.request.excluded = {})
            => SameShape(p, Subtree(observed.db, observed.request.node))

\* C12: a completed copy_node run with excluded descendants, on the deep and
\* on the recursive shallow path, has created a copy of a node of the source
\* subtree if and only if the node is neither excluded nor under an excluded
\* node: N minus the sizes of the excluded subtrees nodes in all.
C12_ExclusionCorrectness ==
    \A p \in Procs :
        (Completed(p) /\ observed.request.excluded # {})
            => /\ \A n \in Subtree(observed.db, observed.request.node) :
                     CopiesOf(p, n) # {} <=> n \in RunSources
               /\ Cardinality(created[p]) = Cardinality(RunSources)

\* The batch size of the run is at or below the span of its source: the
\* source is copied by a shallow unit and _copy recurses into its children.
Recursive(p) == ~is_deep(Instance(observed.db, observed.request.node), observed.request.batch_size)

\* C13: a completed copy_node run whose batch size is at or below the span of
\* the source (shallow copies, recursing) leaves the store that one deep copy
\* of the same source to the same target, with the same position, overrides
\* and exclusions, leaves from the same initial store: the same rows (tree,
\* parent, level, coordinates) and the same payload on every copy.
C13_ThresholdEquivalence ==
    \A p \in Procs :
        (Completed(p) /\ Recursive(p))
            => /\ db = deep_copy_store(observed).db
               /\ \A c \in created[p] : payload[c] = deep_copy_store(observed).payload[c]

\* The records of a set attached to node n.
Attached(S, n) == {x \in S : x.contentnode = n}

\* The files an assessment item owns.
OwnedBy(S, i) == {f \in S : f.assessment_item = i.id}

\* The name of the tag of a node-tag association.
TagName(rel, m) == (CHOOSE t \in rel.tags : t.id = m.contenttag).tag_name

\* Copy c of source n has one new record for each dependent record n had when
\* the run started: files, assessment items with the files they own, tags.
DependentsCopied(n, c) ==
    LET before == observed.related
    IN /\ Cardinality(Attached(related.files, c)) = Cardinality(Attached(before.files, n))
       /\ Cardinality(Attached(related.items, c)) = Cardinality(Attached(before.items, n))
       /\ \A i \in Attached(before.items, n) :
             \E j \in Attached(related.items, c) :
                 /\ j.assessment_id = i.assessment_id
                 /\ j.id \notin {x.id : x \in before.items}
                 /\ Cardinality(OwnedBy(related.files, j)) = Cardinality(OwnedBy(before.files, i))
                 /\ OwnedBy(related.files, j) \cap before.files = {}
       /\ Cardinality(Attached(related.node_tags, c))
              = Cardinality(Attached(before.node_tags, n))
       /\ \A m \in Attached(before.node_tags, n) :
             \E k \in Attached(related.node_tags, c) : TagName(related, k) = TagName(before, m)

\* C14: after a completed copy_node, every file, assessment item and node-tag
\* association of every copied source node has exactly one new record
\* attached to the node's copy, every file an assessment item owns has one
\* duplicate owned by the item's copy, and the original records are still
\* attached to the source, unchanged.
C14_DependentFidelity ==
    \A p \in Procs :
        Completed(p)
            => /\ observed.related.files \subseteq related.files
               /\ observed.related.items \subseteq related.items
               /\ observed.related.node_tags \subseteq related.node_tags
               /\ \A n \in DOMAIN observed.db : \A c \in CopiesOf(p, n) : DependentsCopied(n, c)

\* C15: the store starts with at most one channel-independent tag (channel
\* null) per tag name, and after any sequence of copy_node calls it still
\* has at most one per name: a copy makes a new channel-independent tag only
\* for a name that has none.
C15_TagReuse ==
    \A t, u \in related.tags :
        (t.channel = None /\ u.channel = None /\ t.tag_name = u.tag_name) => t = u

\* The nodes whose dependents the unit of p copies, and the nodes its
\* old-id -> new-id map has.
Selected(p) ==
    IF clone[p].kind = "deep" THEN all_nodes_to_copy(db, node[p], call[p].excluded)
    ELSE {node[p].id}

Correlated(p) ==
    IF clone[p].kind = "deep" THEN DOMAIN clone[p].source_copy_id_map ELSE {node[p].id}

\* A file, an assessment item or a node-tag association selected for copying
\* references a node that the map does not have.
MissingCorrelation(p) ==
    /\ call[p].op = "copy"
    /\ clone[p].kind \in {"deep", "shallow"}
    /\ \E x \in related.files \cup related.items \cup related.node_tags :
          x.contentnode \in Selected(p) \ Correlated(p)

\* Every dependent record refers to a node of the store (a file: or to an
\* assessment item).
ReferencesHold(rel, d) ==
    /\ \A f \in rel.files : f.contentnode \in DOMAIN d
                              \/ (f.contentnode = None /\ f.assessment_item # None)
    /\ \A i \in rel.items : i.contentnode \in DOMAIN d
    /\ \A m \in rel.node_tags : m.contentnode \in DOMAIN d

\* C16: when a dependent record selected for copying references a node id
\* that the old-id -> new-id map does not have, the dependent-record copy
\* raises: the unit does not go on as if the record had been copied or
\* skipped, and no record is written with a missing or null node reference.
C16_MissingCorrelationFatal ==
    [][\A p \in Procs :
          (pc[p] = "after" /\ MissingCorrelation(p) /\ pc'[p] # pc[p])
              => /\ pc'[p] = "raised"
                 /\ error'[p] \in {"KeyError", "IntegrityError", "DatabaseError"}
                 /\ ReferencesHold(related', db')]_vars

\* A deep copy unit has raised IntegrityError on a tag association of a node
\* that its map does not have.
C16_Witness ==
    \E p \in Procs :
        /\ pc[p] = "raised"
        /\ error[p] = "IntegrityError"
        /\ \E m \in related.node_tags : m.contentnode \in Selected(p) \ Correlated(p)

RECURSIVE SumSeq(_)
SumSeq(q) == IF q = << >> THEN 0 ELSE Head(q) + SumSeq(Tail(q))

\* C17: in every copy_node run the expected total is published exactly once,
\* before any node is inserted and before any progress report; after every
\* unit the counts reported so far add up to the nodes created so far (a
\* shallow unit reports 1, a deep unit the number of nodes it created); and
\* when the run completes the reported counts add up to the published total.
C17_ProgressAccounting ==
    \A p \in Procs :
        call[p].op = "copy"
            => /\ Len(totals[p]) <= 1
               /\ (created[p] # {} \/ reports[p] # << >>) => Len(totals[p]) = 1
               /\ pc[p] = "unwind" => SumSeq(reports[p]) = Cardinality(created[p])
               /\ Completed(p) => SumSeq(reports[p]) = totals[p][1]

\* A unit of the copy_node run of p has failed and the failure is on its way
\* to the caller.
UnitFailed(p) == call[p].op = "copy" /\ pc[p] = "raised"

\* The nodes the failing unit inserted, and those of the units before it.
FailingInserts(p) == IF clone[p].kind \in {"deep", "shallow"} THEN clone[p].made ELSE {}

EarlierInserts(p) == created[p] \ FailingInserts(p)

\* C18 as stated: when a unit of a recursive copy fails, the nodes of the
\* units before it remain in the store, the nodes the failing unit inserted
\* inside its lock_mptt transaction are not visible, and the failure is
\* propagated.
C18_FailingUnitInvisible ==
    \A p \in Procs :
        (UnitFailed(p) /\ Recursive(p))
            => /\ EarlierInserts(p) \subseteq DOMAIN db
               /\ locking_active(mode[p], normalise(args[p]))
                     => FailingInserts(p) \cap DOMAIN db = {}
               /\ error[p] # "none"

\* A step of a copy_node run keeps every dependent record there is.
KeepsRelated ==
    /\ related.files \subseteq related'.files
    /\ related.items \subseteq related'.items
    /\ related.tags \subseteq related'.tags
    /\ related.node_tags \subseteq related'.node_tags

\* C18: when a unit of a copy fails, the nodes and the dependent records of
\* the units before it remain in the store, the failure is propagated to the
\* caller and no further unit is started; the nodes the failing unit inserted
\* are not visible when it fails inside its lock_mptt transaction, and remain
\* in the store when it fails after the with block, in the copy of its
\* dependent records.
C18_NoRollbackOfCompleted ==
    /\ [](\A p \in Procs :
            /\ UnitFailed(p) => (EarlierInserts(p) \subseteq DOMAIN db /\ error[p] # "none")
            /\ (call[p].op = "copy" /\ pc[p] = "exit" /\ error[p] # "none")
                  => (EarlierInserts(p) \subseteq DOMAIN db
                      /\ FailingInserts(p) \cap DOMAIN db = {}))
    /\ [][\A p \in Procs :
             /\ call[p].op = "copy" => KeepsRelated
             /\ (call[p].op = "copy" /\ pc[p] = "exit" /\ error[p] # "none")
                   => (pc'[p] \in {"exit", "raised"} /\ db' = db)
             /\ (call[p].op = "copy" /\ pc[p] = "after" /\ pc'[p] = "raised")
                   => (FailingInserts(p) \subseteq DOMAIN db' /\ db' = db)
             /\ UnitFailed(p) => (pc'[p] \in {"raised", "idle"} /\ db' = db
                                  /\ related' = related)]_vars

\* The second or a later unit of a recursive copy has failed inside its
\* lock_mptt transaction: the nodes of the units before it are in the store,
\* the ones it had inserted are not.
C18_Witness ==
    \E p \in Procs :
        /\ UnitFailed(p) /\ Recursive(p)
        /\ EarlierInserts(p) # {} /\ EarlierInserts(p) \subseteq DOMAIN db
        /\ FailingInserts(p) # {} /\ FailingInserts(p) \cap DOMAIN db = {}

\* The copier of the run lacks edit rights on the source channel, or the
\* source of copy c is frozen.
MustFreeze(c) ==
    \/ ~observed.request.can_edit_source_channel
    \/ payload[payload[c].cloned_source].freeze_authoring_data

\* Copy c is the copy of the node the run was asked to copy, and the caller's
\* overrides set its freeze_authoring_data.
FreezeOverridden(c) ==
    /\ payload[c].cloned_source = observed.request.node
    /\ "freeze_authoring_data" \in observed.request.mods.fields

\* C19 as stated: every node copy_node creates, on the deep and on the
\* shallow path, has freeze_authoring_data = true whenever the copier lacks
\* edit rights on the source channel or its source node is frozen.
C19_FreezeMonotonic ==
    \A p \in Procs :
        (call[p].op = "copy" /\ observed.open)
            => \A c \in created[p] \cap DOMAIN db :
                  MustFreeze(c) => payload[c].freeze_authoring_data

\* C19: every node copy_node creates has freeze_authoring_data = true
\* whenever the copier lacks edit rights on the source channel or its source
\* node is frozen, except the copy of the node the call names when the
\* caller's overrides set the field: it has the value the overrides give.
C19_FreezeUnlessOverridden ==
    \A p \in Procs :
        (call[p].op = "copy" /\ observed.open)
            => \A c \in created[p] \cap DOMAIN db :
                  /\ (MustFreeze(c) /\ ~FreezeOverridden(c)) => payload[c].freeze_authoring_data
                  /\ FreezeOverridden(c)
                        => payload[c].freeze_authoring_data
                             = observed.request.mods.freeze_authoring_data

\* A copier with edit rights has copied a copy: the new node's source is
\* itself a frozen copy, and the new node is frozen.
C19_Witness ==
    \E p \in Procs :
        /\ call[p].op = "copy" /\ observed.open
        /\ observed.request.can_edit_source_channel
        /\ \E c \in created[p] \cap DOMAIN db :
              /\ payload[payload[c].cloned_source].cloned_source # None
              /\ payload[payload[c].cloned_source].freeze_authoring_data
              /\ payload[c].freeze_authoring_data

\* The unit p runs is a deep copy with a target.
DeepUnitWithTarget(p) ==
    call[p].op = "copy" /\ clone[p].kind = "deep" /\ target[p].id # None

\* C20: a deep copy unit with a target clones with no tree lock held, inserts
\* its nodes under the lock of the target's tree, has marked the target as
\* changed when the lock is released, and copies the dependent records with
\* no tree lock held.
C20_DeepCopyOrder ==
    \A p \in Procs :
        DeepUnitWithTarget(p)
            => /\ pc[p] = "lock_mptt" => (held[p] = {} /\ ~txn[p] /\ clone[p].made = {})
               /\ (pc[p] = "exit" /\ error[p] = "none")
                     => (txn[p] /\ target[p].tree_id \in held[p] /\ clone[p].made # {})
               /\ pc[p] = "after"
                     => (held[p] = {} /\ ~txn[p] /\ payload[target[p].id].changed)

\* The unit p runs is a shallow copy.
ShallowUnit(p) == call[p].op = "copy" /\ clone[p].kind = "shallow"

\* A shallow unit has inserted one node, the copy of its root, under the lock
\* of the tree the refreshed target is in; the lock is released when the
\* dependent records are copied.
ShallowInsertLocked(p) ==
    /\ (ShallowUnit(p) /\ pc[p] = "exit" /\ error[p] = "none")
          => /\ Cardinality(clone[p].made) = 1
             /\ \A c \in clone[p].made : payload[c].cloned_source = node[p].id
             /\ target[p].id # None => (txn[p] /\ target[p].tree_id \in held[p])
    /\ (ShallowUnit(p) /\ pc[p] = "after") => (held[p] = {} /\ ~txn[p])

\* The children a shallow unit queued are non-excluded children of one node,
\* in ascending lft order, and their target is a node the run created; a
\* frame is queued only by a unit that has reported.
ChildrenQueued(p) ==
    call[p].op = "copy"
        => /\ Len(reports[p]) >= Len(frames[p])
           /\ \A k \in 1..Len(frames[p]) :
                 LET f == frames[p][k]
                 IN /\ f.target.id \in created[p]
                    /\ \A i \in 1..Len(f.children) :
                          /\ f.children[i].id \notin call[p].excluded
                          /\ db[f.children[i].id].parent = db[f.children[1].id].parent
                    /\ \A i, j \in 1..Len(f.children) :
                          i < j => db[f.children[i].id].lft < db[f.children[j].id].lft

\* The unit of a child runs with the new node of the shallow unit that
\* queued it as target and with position last-child, after that unit reported.
ChildUnitTarget(p) ==
    (call[p].op = "copy" /\ frames[p] # << >> /\ pc[p] = "copy")
        => /\ target[p] = frames[p][Len(frames[p])].target
           /\ call[p].position = "last-child"
           /\ reports[p] # << >>
           /\ clone[p] = NoClone

\* C21: a shallow unit inserts exactly one node, the copy of its root, while
\* it holds the lock of the target's tree after the refresh of the target,
\* releases the lock and copies the node's dependent records with no tree
\* lock held; the units of the source's non-excluded children start after it
\* has reported, one at a time in ascending lft order, each with the new
\* node as target and position last-child.
C21_ShallowCopyOrder ==
    \A p \in Procs : ShallowInsertLocked(p) /\ ChildrenQueued(p) /\ ChildUnitTarget(p)

\* p's copy unit has inserted its nodes next to a target and is still inside
\* the with block.
UnitInserted(p) ==
    /\ call[p].op = "copy"
    /\ pc[p] = "exit"
    /\ error[p] = "none"
    /\ clone[p].made # {}
    /\ target[p].id # None

\* The left coordinate of the first node p's unit inserted: its insertion point.
InsertionPoint(p) ==
    LET first == CHOOSE m \in clone[p].made :
                    \A k \in clone[p].made : db[m].lft <= db[k].lft
    IN db[first].lft

\* Where a coordinate c of the target's tree is after a shift of size at point.
Shifted(c, point, size) == IF c > point - 1 THEN c + size ELSE c

\* The rows that were in tree T before p's unit wrote have exactly the
\* coordinates above the insertion point - 1 raised by twice the number of
\* nodes the unit inserted.
ShiftIsExact(p, T) ==
    LET before == clone[p].undo
        size == 2 * Cardinality(clone[p].made)
    IN \A n \in DOMAIN before :
          before[n].tree_id = T
              => /\ db[n].tree_id = T
                 /\ db[n].lft = Shifted(before[n].lft, InsertionPoint(p), size)
                 /\ db[n].rght = Shifted(before[n].rght, InsertionPoint(p), size)

\* C22: when a copy unit has shifted coordinates and inserted nodes in the
\* tree the refreshed target is in, the caller holds the lock of that tree,
\* also when another process changed the target's tree between the caller's
\* read of target.tree_id and the lock acquisition, and the shift is twice
\* the number of inserted nodes, applied to exactly the coordinates greater
\* than the insertion point - 1 in that tree.
C22_WritesUnderTargetLock ==
    \A p \in Procs :
        UnitInserted(p)
            => /\ txn[p]
               /\ target[p].tree_id \in held[p]
               /\ (/\ target[p].tree_id \in held[p]
                   /\ \A m \in clone[p].made : db[m].tree_id = target[p].tree_id)
                     => ShiftIsExact(p, target[p].tree_id)

\* p's deep unit has inserted its nodes next to a target that is not a root.
DeepInsertedAtChild(p) ==
    /\ UnitInserted(p)
    /\ clone[p].kind = "deep"
    /\ db[target[p].id].parent # None

\* The row of the copy of the root of p's deep unit.
RootCopy(p) == db[clone[p].source_copy_id_map[node[p].id]]

\* C23: the root copy of a deep unit placed left or right of a non-root
\* target is a sibling of the target: it has the target's parent and level,
\* and its interval is immediately before (left) or after (right) the
\* target's, inside the parent's; placed first-child or last-child it has
\* the target as parent and the target's level + 1.
C23_DeepSiblingPositions ==
    \A p \in Procs :
        DeepInsertedAtChild(p)
            => LET t == db[target[p].id]
                   c == RootCopy(p)
               IN /\ call[p].position \in {"left", "right"}
                     => /\ c.parent = t.parent
                        /\ c.level = t.level
                        /\ call[p].position = "left" => c.rght + 1 = t.lft
                        /\ call[p].position = "right" => t.rght + 1 = c.lft
                        /\ db[t.parent].lft < c.lft /\ c.rght < db[t.parent].rght
                  /\ call[p].position \in {"first-child", "last-child"}
                     => /\ c.parent = target[p].id
                        /\ c.level = t.level + 1

\* The root of the tree node n is in, by the parent links of the rows d.
RECURSIVE RootOf(_, _)
RootOf(d, n) == IF d[n].parent = None THEN n ELSE RootOf(d, d[n].parent)

\* p's move_node has made its update and has not returned.
Moved(p) == call[p].op = "move" /\ clone[p].kind = "move"

\* p's move took its node out of the tree it was in: the root above the node
\* is not the one it had.
MovedAcrossTrees(p) ==
    LET now == IF node[p].parent = None THEN node[p].id
               ELSE RootOf(clone[p].undo, target[p].id)
    IN RootOf(clone[p].undo, node[p].id) # now

\* The prerequisite records of a set in which n is the prerequisite or the target node.
LinksOf(S, n) == {r \in S : r.prerequisite = n \/ r.target_node = n}

\* C24: after a move_node that takes the node into another tree (a child
\* moved into another tree, a root moved under a node of another tree, a
\* child made a root) no prerequisite relationship record has the moved node
\* as prerequisite or target node; a move that keeps the node in its tree
\* deletes no relationship record.
C24_CrossTreeMoveUnlinks ==
    \A p \in Procs :
        Moved(p)
            => IF MovedAcrossTrees(p)
               THEN LinksOf(clone[p].kept, node[p].id) = {}
               ELSE clone[p].kept = clone[p].links

\* Copy c is the copy of the node the run was asked to copy.
IsRootCopy(c) == payload[c].cloned_source = observed.request.node

\* The fields of the original's provenance.
ProvenanceFields == {"original_channel_id", "original_source_node_id"}

\* The value field f of copy c has when no override sets it: frozen by the
\* copier's rights or the source, the provenance of the source or, for a
\* source with none, the source itself.
Default(c, f) ==
    LET src == payload[c].cloned_source
    IN CASE f = "freeze_authoring_data" -> MustFreeze(c)
         [] f = "original_channel_id" -> payload[src].original_channel_id
         [] f = "original_source_node_id" ->
               IF payload[src].original_source_node_id # None
               THEN payload[src].original_source_node_id ELSE src

\* No override reached copy c: its fields have their default values.
NotOverridden(c) ==
    \A f \in ProvenanceFields \cup {"freeze_authoring_data"} : payload[c][f] = Default(c, f)

\* C25 as stated: the copy of the node the call names carries the override
\* value of every field of the overrides, a null provenance included, and no
\* other copy carries an override.
C25_OverridesWin ==
    \A p \in Procs :
        (call[p].op = "copy" /\ observed.open)
            => \A c \in created[p] \cap DOMAIN db :
                  IF IsRootCopy(c)
                  THEN \A f \in observed.request.mods.fields :
                          payload[c][f] = observed.request.mods[f]
                  ELSE NotOverridden(c)

\* C25: the copy of the node the call names carries the override value of
\* every field of the overrides, except a provenance field the overrides set
\* to null, which has the value resolved from the original node; no other
\* copy carries an override.
C25_OverridesWinUnlessNull ==
    \A p \in Procs :
        (call[p].op = "copy" /\ observed.open)
            => \A c \in created[p] \cap DOMAIN db :
                  IF IsRootCopy(c)
                  THEN \A f \in observed.request.mods.fields :
                          payload[c][f] =
                             IF f \in ProvenanceFields /\ observed.request.mods[f] = None
                             THEN Default(c, f)
                             ELSE observed.request.mods[f]
                  ELSE NotOverridden(c)

\* A run whose overrides name an original has copied a node and its child:
\* the copy of the node has the provenance of the overrides and the copy of
\* the child the provenance of its source.
C25_Witness ==
    \E p \in Procs :
        /\ Completed(p)
        /\ observed.request.mods.fields = ProvenanceFields
        /\ \E c, k \in created[p] \cap DOMAIN db :
              /\ IsRootCopy(c)
              /\ payload[c].original_channel_id = 2
              /\ payload[c].original_source_node_id = 3
              /\ ~IsRootCopy(k)
              /\ payload[k].original_source_node_id = 9

\* C26: the body of a lock_mptt call runs at most once, also when it raised
\* a deadlock error under the locks; a call whose body raised ends with an
\* error at the caller and with no tree lock and no transaction of the call left.
C26_BodyRunsOnce ==
    \A p \in Procs :
        call[p].op = "lock"
            => /\ body_runs[p] <= 1
               /\ (pc[p] = "raised" /\ body_runs[p] = 1)
                     => (error[p] # "none" /\ held[p] = {} /\ ~txn[p])

\* p is in a lock_mptt call that took the locking branch.
LockingCall(p) == call[p].op = "lock" /\ locking_active(mode[p], tree_ids[p])

\* C27: every tree lock a lock_mptt call acquired is held until its body has
\* finished, all of them are released together when the body returns or
\* raises, and once lock_mptt has returned or raised the caller holds none
\* of them (so that a process waiting for one of the trees can acquire it).
C27_LockLifetime ==
    \A p \in Procs :
        LockingCall(p)
            => /\ pc[p] \in {"body", "exit"} => held[p] = AllLocked(p)
               /\ pc[p] \in {"after", "raised"} => (held[p] = {} /\ ~txn[p])

\* The most nodes one lock acquisition of a copy with batch size b may insert.
MaxPerLock(b) == IF b \div 2 > 1 THEN b \div 2 ELSE 1

\* A dependent record is attached to node c.
HasDependents(c) ==
    \/ \E f \in related.files : f.contentnode = c
    \/ \E i \in related.items : i.contentnode = c
    \/ \E t \in related.node_tags : t.contentnode = c

====
